---- MODULE Spec2Model ----
(***************************************************************************)
(* EFILE submission integrity pipeline of tax-prep-app.                    *)
(*                                                                         *)
(* The model follows the asyncio scheduling of the FastAPI application:    *)
(* a handler runs without interruption from one suspension point to the    *)
(* next.  The suspension points of the submission path are the HTTP POST   *)
(* inside EfileClient.send (app/efile/transmit.py:57) and the back-off     *)
(* sleep (transmit.py:68); prepare_xml_submission is a plain function and  *)
(* runs to completion inside the step that calls it.                       *)
(*                                                                         *)
(* Time is counted in ticks of the wall clock (time.time()); one tick is   *)
(* the unit in which back-off factor and cool-down are expressed.          *)
(***************************************************************************)
EXTENDS Integers, Sequences, FiniteSets, TLC

\* ------------------------------------------------------------------ bounds
\* Number of HTTP requests in a run with arbitrary requests.
NumRequests == 2
\* Number of HTTP requests in a run with well-formed requests only.
NumTransmits == 3
\* Number of POSTs the requests of such a run may need together.
MaxPosts == 6
\* Last value of the wall clock.
MaxTime == 8
\* Latest filing time (seconds since the epoch) of a retained record.
MaxFiledAt == 2

\* Handler invocations.
Subs == 1..(IF NumRequests >= NumTransmits THEN NumRequests ELSE NumTransmits)

\* ------------------------------------------------------- inputs and config
\* Returns that a request may carry (content of ReturnInput / ReturnCalc).
ReturnInputs == 1..2
\* Endpoint overrides of a TransmitRequest ("" stands for None).
EndpointOverrides == {"", "A/"}
\* Values of EFILE_ENDPOINT_CERT ("" is an empty environment variable).
ProfileEndpoints == {"A", ""}
\* Reference ids _generate_sbmt_ref_id can return within one hour.
RefIds == 1..2
\* Tax years of a request.
TaxYears == {2023, 2024, 2025}
\* TRANSMIT_MAX_RETRIES / TRANSMIT_CIRCUIT_THRESHOLD as read from the
\* environment, before validation.
RetriesEnv == 0..3
ThresholdEnv == 0..3
\* TRANSMIT_CIRCUIT_COOLDOWN and TRANSMIT_BACKOFF, in ticks.
CooldownEnv == {2, 3}
BackoffEnv == {1}
\* T183_CRYPTO_KEY: unset, a valid Fernet key, a string that is no Fernet key.
CryptoKeys == {"", "K1", "bad"}

NoError == [kind |-> "none", attempt |-> 0]

\* No library call has been made yet.
NoCall == [op |-> "none", args |-> <<>>, result |-> <<>>,
           prev_op |-> "none", prev_args |-> <<>>, prev_result |-> <<>>]

\* The library call op(args) = result follows the calls recorded in l.
Called(l, op, args, result) ==
    [op |-> op, args |-> args, result |-> result,
     prev_op |-> l.op, prev_args |-> l.args, prev_result |-> l.result]

\* Inputs of the digest: the two documents of a return (an XML document is
\* one symbol here: it ends with its closing tag), the environment (one of
\* two literals), and software id, software version and transmitter id as
\* the environment variables give them, character by character.
DigestTuples ==
    [t1_xml : {<<"T1Return1">>, <<"T1Return2">>},
     t183_xml : {<<"T183Authorization1">>, <<"T183Authorization2">>},
     environment : {<<"CERT">>, <<"PROD">>},
     software_id : {<<"A">>, <<"A", "B">>},
     software_version : {<<"B", "1">>, <<"1">>},
     transmitter_id : {<<"9">>, <<"8">>}]

\* Paths of record files under the retention root:
\* <<tax_year, last four digits of the SIN, prefix, int(filed_at.timestamp())>>
RetentionPaths ==
    {2025} \X {"6789"} \X {"t183", "t2183"} \X (1..MaxFiledAt)

\* Bytes of a file or of an argument of encrypt / decrypt: token_of is the key
\* of the Fernet token the bytes are ("" if they are no token), body what the
\* bytes, or the plaintext of the token, hold: a JSON object with an
\* expires_at string ("record"), a JSON object without one ("no_expires_at")
\* or no JSON at all ("invalid_json").
NoBytes == [token_of |-> "", body |-> "absent", expires_at |-> <<>>]

\* A file that cannot be read (read_bytes raises).
Unreadable == [token_of |-> "", body |-> "unreadable", expires_at |-> <<>>]

\* Expiry times of records and times a purge is run as of.
Expiries == {1, 2}
AsOfs == {1, 2}

\* datetime.isoformat and datetime.fromisoformat
IsoFormat(t) == <<"iso", t>>
FromIsoFormat(text) == text[2]

\* T183Record: the fields the store and the purge read.
Records == [filed_at : 1..MaxFiledAt, expires_at : Expiries]

\* A retention root without files (NoBytes where there is no file).
EmptyRoot == [p \in RetentionPaths |-> NoBytes]

\* ------------------------------------------------------------------- state
VARIABLES
    settings,            \* app.state.settings (frozen Settings)
    now,                 \* time.time()
    circuits,            \* transmit._CIRCUITS: label -> {failures, open_until}
    submission_digests,  \* app.state.submission_digests
    summary_index,       \* app.state.summary_index (digests with a summary path)
    summaries,           \* entries of the daily summary file
    artifacts,           \* <<sbmt_ref_id, digest>> prefixes of artifact files
    last_sbmt_ref_id,    \* app.state.last_sbmt_ref_id (0 when unset)
    sub,                 \* the handler invocations
    retention,           \* files under the retention root: path -> content
    lib,                 \* the latest call of a library function from outside
                         \* the handlers (tests, scripts), and the one before
    compiled             \* t619._COMPILED_SCHEMAS: documents whose schema is
                         \* compiled

vars == <<settings, now, circuits, submission_digests, summary_index,
          summaries, artifacts, last_sbmt_ref_id, sub, retention, lib,
          compiled>>

\* What the transmission leaves alone.
libvars == <<retention, lib, compiled>>

\* What the library calls leave alone.
appvars == <<now, circuits, submission_digests, summary_index, summaries,
             artifacts, last_sbmt_ref_id, sub>>

\* ------------------------------------------------------------ app/config.py
Max(a, b) == IF a >= b THEN a ELSE b

\* Settings._validate_retries
ValidateRetries(value) == Max(1, value)

\* Settings._validate_threshold
ValidateThreshold(value) == Max(1, value)

\* Settings.profile(): the CERT profile
ProfileEnvironment == <<"CERT">>
ProfileSoftwareId == <<"TAXAPP-CERT">>
ProfileSoftwareVersion == <<"0.0.3">>
ProfileTransmitterId == <<"900000">>

AllSettings ==
    [ feature_efile_xml : BOOLEAN,
      efile_window_open : BOOLEAN,
      feature_legacy_efile : BOOLEAN,
      endpoint : ProfileEndpoints,
      transmit_max_retries : {ValidateRetries(v) : v \in RetriesEnv},
      transmit_backoff_factor : BackoffEnv,
      transmit_circuit_threshold : {ValidateThreshold(v) : v \in ThresholdEnv},
      transmit_circuit_cooldown : CooldownEnv,
      t183_crypto_key : CryptoKeys,
      retention_t2183_enabled : BOOLEAN ]

\* Settings.t183_crypto_key and Settings.retention_t2183_enabled as they are
\* when the environment does not set them.
RetentionDefaults(s) == s.t183_crypto_key = "" /\ ~s.retention_t2183_enabled

\* Number of switches (feature flags, window, endpoint) that are off.
SwitchesOff(s) ==
    Cardinality({f \in {"x", "w", "l", "e"} :
        \/ f = "x" /\ ~s.feature_efile_xml
        \/ f = "w" /\ ~s.efile_window_open
        \/ f = "l" /\ ~s.feature_legacy_efile
        \/ f = "e" /\ s.endpoint = ""})

\* Settings of the web application in the runs explored: every switch on or
\* exactly one off, with one setting of the retry and circuit parameters.
AppSettings ==
    { s \in AllSettings :
        /\ SwitchesOff(s) <= 1
        /\ s.transmit_max_retries = 1 /\ s.transmit_circuit_threshold = 1
        /\ s.transmit_circuit_cooldown = 2
        /\ RetentionDefaults(s) }

\* Settings in the runs with well-formed requests: every switch on, every
\* validated value of the retry and circuit parameters.
TransmitSettings ==
    { s \in AllSettings : SwitchesOff(s) = 0 /\ s.transmit_circuit_cooldown = 2
                           /\ RetentionDefaults(s) }

\* --------------------------------------------------- app/efile/transmit.py
\* EfileClient.__init__: label = base_url.rstrip("/")
RStripSlash(base_url) == IF base_url = "A/" THEN "A" ELSE base_url

Labels ==
    {RStripSlash(e) :
        e \in (EndpointOverrides \cup ProfileEndpoints \cup {"localhost"}) \ {""}}

\* _CIRCUITS.setdefault(label, {"failures": 0, "open_until": 0.0})
ClosedCircuit == [failures |-> 0, open_until |-> 0]

\* The test of _state with its comparison turned around.
CircuitIsOpenReversed(state, t) == state.open_until # 0 /\ t > state.open_until

\* EfileClient._state, first test: the circuit is open at time t
CircuitIsOpen(state, t) == state.open_until # 0 /\ t < state.open_until

\* EfileClient._state, second test: the cool-down has passed at time t
CooldownPassed(state, t) == state.open_until # 0 /\ t >= state.open_until

\* EfileClient._state, the state it returns when it does not raise
StateAfterCheck(state, t) ==
    IF CooldownPassed(state, t) THEN [failures |-> 0, open_until |-> 0] ELSE state

\* EfileClient._record_failure
RecordFailure(state, cooldown, threshold, t) ==
    LET failures == state.failures + 1
    IN  [failures |-> failures,
         open_until |-> IF failures >= threshold THEN t + cooldown
                        ELSE state.open_until]

\* A success that resets the count and leaves open_until as it is.
RecordSuccessKeepsOpen(state) == [state EXCEPT !.failures = 0]

\* EfileClient._record_success
RecordSuccess(state) == [failures |-> 0, open_until |-> 0]

\* EfileClient.send: the loop condition
ShouldAttempt(attempt, max_retries) == attempt < max_retries

\* A delay computed with the exponent one too high.
SleepForNextPower(backoff, attempt) == backoff * 2 ^ attempt

\* EfileClient.send: sleep_for = backoff * 2 ** (attempt - 1)
SleepFor(backoff, attempt) == backoff * 2 ^ (attempt - 1)

\* EfileClient.send: last_error = exc
NextLastError(last_error, exc) == exc

\* Outcomes of one POST: a 2xx response whose body is or is not JSON, a non-2xx
\* response (raise_for_status raises), a timeout or connection error.
AttemptOutcomes == {"2xx_json", "2xx_text", "non_2xx", "timeout"}

\* EfileClient.send: the try block completes (no exception) for this outcome
AttemptSucceeds(outcome, content_type) ==
    \/ outcome = "2xx_json"
    \/ outcome = "2xx_text" /\ content_type = "application/xml"

\* ---------------------------------------------------- app/efile/service.py
\* enforce_prefile_gates / validate_before_efile: the codes of the issues
\* found.  50010 is the missing signing timestamp; 10005 stands for the
\* checks on the other fields the gate is given.
\* A gate that does not look at the signing timestamp.
PrefileIssuesNoT183(t183_signed_ts, others_ok) ==
    IF others_ok THEN {} ELSE {"10005"}

PrefileIssues(t183_signed_ts, others_ok) ==
    (IF t183_signed_ts THEN {} ELSE {"50010"})
        \cup (IF others_ok THEN {} ELSE {"10005"})

\* Documents build_t619_package validates, and the one that violates its
\* schema ("none" if each conforms).
SchemaViolations == {"none", "T1Return", "T183Authorization", "T619Transmission"}

\* A build that does not validate the envelope.
BuildOutcomeSkipsEnvelope(t183_signed_ts, violation) ==
    IF ~t183_signed_ts THEN "ValueError"
    ELSE IF violation \in {"none", "T619Transmission"} THEN "ok"
    ELSE violation

\* build_t619_package: how the call ends.  map_t183_fields raises ValueError
\* before any element is built when the signing timestamp is missing; then
\* the return, the authorization and the envelope are validated in turn.
BuildOutcome(t183_signed_ts, violation) ==
    IF ~t183_signed_ts THEN "ValueError"
    ELSE IF violation = "none" THEN "ok"
    ELSE violation

\* The documents in the order build_t619_package validates them.
SchemaNames == <<"T1Return", "T183Authorization", "T619Transmission">>

\* Position of the document that violates its schema (4 if none does).
ViolationAt(violation) ==
    IF violation = "none" THEN 4
    ELSE CHOOSE i \in 1..3 : SchemaNames[i] = violation

\* _get_schema: position of the first document whose schema is neither
\* compiled nor in schema_cache (4 if there is none).  schemas_loaded tells
\* whether schema_cache holds the schemas.
MissingAt(cache, schemas_loaded) ==
    IF schemas_loaded \/ \A i \in 1..3 : SchemaNames[i] \in cache THEN 4
    ELSE CHOOSE i \in 1..3 :
             /\ SchemaNames[i] \notin cache
             /\ \A j \in 1..(i - 1) : SchemaNames[j] \in cache

\* build_t619_package with the schema cache it is given: _get_schema raises
\* ValueError for a schema that is not loaded, before the document is
\* validated.
BuildOutcomeWith(cache, schemas_loaded, t183_signed_ts, violation) ==
    IF t183_signed_ts /\ MissingAt(cache, schemas_loaded) <= 3
           /\ MissingAt(cache, schemas_loaded) <= ViolationAt(violation)
    THEN "ValueError"
    ELSE BuildOutcome(t183_signed_ts, violation)

\* _COMPILED_SCHEMAS after build_t619_package: _get_schema compiles the
\* schema of each document the call gets to validate.
CompiledAfter(cache, schemas_loaded, t183_signed_ts, violation) ==
    IF ~t183_signed_ts THEN cache
    ELSE cache \cup {SchemaNames[i] : i \in {j \in 1..3 :
                         /\ j < MissingAt(cache, schemas_loaded)
                         /\ j <= ViolationAt(violation)}}

\* ZipInfo.date_time of every entry of the payload archive.
ZipDateTime == <<2020, 1, 1, 0, 0, 0>>

\* sorted(documents.keys()): position of a name in the sorted order of the
\* names ("8" sorts before "R").
NameRank(name) ==
    IF name = "T183Authorization" THEN 1 ELSE IF name = "T1Return" THEN 2 ELSE 3

\* A serialization that keeps the insertion order of the documents.
SerializePayloadUnsorted(documents) ==
    [i \in 1..Len(documents) |-> <<documents[i][1], ZipDateTime, documents[i][2]>>]

\* _serialize_payload: the entries of the archive, sorted by name, each with
\* its name, the fixed date and its text.  documents is the dict as a
\* sequence of <<name, text>> in insertion order.
SerializePayload(documents) ==
    LET at(i) == CHOOSE k \in 1..Len(documents) :
                     Cardinality({j \in 1..Len(documents) :
                         NameRank(documents[j][1]) < NameRank(documents[k][1])}) = i - 1
    IN  [i \in 1..Len(documents) |->
            <<documents[at(i)][1], ZipDateTime, documents[at(i)][2]>>]

\* build_t619_package: the return and authorization documents of a request.
\* Neither contains the reference id or the time of the call; the envelope
\* embeds the reference id, the profile and the payload archive.
BuildT619Package(req, sbmt_ref_id) ==
    [sbmt_ref_id |-> sbmt_ref_id,
     t1_xml |-> <<"T1Return", req>>,
     t183_xml |-> <<"T183Authorization", req>>,
     envelope_xml |-> <<"T619Transmission", sbmt_ref_id, ProfileEnvironment,
                        ProfileSoftwareId, ProfileSoftwareVersion,
                        ProfileTransmitterId,
                        SerializePayload(<<<<"T1Return", <<"T1Return", req>>>>,
                                           <<"T183Authorization",
                                             <<"T183Authorization", req>>>>>>)>>]

\* prepare_xml_submission: canonical_source, the six strings put one after
\* the other, and its SHA-256 (collision-free, so the digest is identified
\* with the bytes it is computed over).  Strings are sequences of characters.
CanonicalSource(t1_xml, t183_xml, environment, software_id, software_version, transmitter_id) ==
    t1_xml \o t183_xml \o environment \o software_id \o software_version
        \o transmitter_id

\* A digest computed over the envelope, which embeds the reference id.
DigestOfEnvelope(package) ==
    package.envelope_xml \o ProfileEnvironment \o ProfileSoftwareId
        \o ProfileSoftwareVersion \o ProfileTransmitterId

\* prepare_xml_submission: the digest of a package under the CERT profile
DigestOf(package) ==
    CanonicalSource(package.t1_xml, package.t183_xml, ProfileEnvironment,
                    ProfileSoftwareId, ProfileSoftwareVersion,
                    ProfileTransmitterId)

\* A membership test that looks at no digest.
NeverDuplicate(digest, cache) == FALSE

\* prepare_xml_submission: "if digest in cache"
IsDuplicate(digest, cache) == digest \in cache

\* A registration that adds nothing.
RegisterNothing(cache, digest) == cache

\* prepare_xml_submission: cache.add(digest)
Register(cache, digest) == cache \cup {digest}

\* _resolve_endpoint: "" when it raises
ResolveEndpoint(profile_endpoint, endpoint_override) ==
    IF endpoint_override # "" THEN endpoint_override ELSE profile_endpoint

\* _persist_artifacts may fail while creating the directories, while writing
\* the artifact files or the summary, or not at all.
PersistOutcomes == {"ok", "fail_mkdir", "fail_summary"}

\* record_transmit_outcome: the last entry of the digest gets the response
RECURSIVE LastEntryOf(_, _, _)
LastEntryOf(entries, digest, i) ==
    IF i = 0 THEN 0
    ELSE IF entries[i].digest = digest THEN i
    ELSE LastEntryOf(entries, digest, i - 1)

RecordTransmitOutcome(entries, index, digest, response) ==
    LET i == LastEntryOf(entries, digest, Len(entries))
    IN  IF digest \notin index \/ i = 0 THEN entries
        ELSE [entries EXCEPT ![i].response = response]

\* ------------------------------------------------------- handler invocations
\* pc: "idle" (request not yet received), "inflight" (suspended in the POST),
\* "sleeping" (suspended in the back-off sleep), "done".
\* result: how the invocation ended; status: the HTTP status it answered.
\* attempt, last_error, sleep_for: the locals of EfileClient.send; sent counts
\* the POSTs the invocation started and got_2xx the 2xx responses it received;
\* wake is the time its sleep ends; half_open tells that _state() found the
\* cool-down passed when the call started.  t183_signed_ts tells whether the
\* request carries a signing timestamp and others_ok whether its other gated
\* fields are in order, issues are the codes the prefile gate found; violation
\* is the document that violates its schema and build is how
\* build_t619_package ended ("none": not called).  They are recorded when
\* prepare_xml_submission runs the gate and the build.
IdleSub ==
    [pc |-> "idle", kind |-> "", result |-> "", status |-> 0, req |-> 0,
     digest |-> <<>>, sbmt_ref_id |-> 0, label |-> "", content_type |-> "",
     attempt |-> 0, last_error |-> NoError, raised |-> NoError,
     sleep_for |-> 0, wake |-> 0, sent |-> 0, got_2xx |-> 0,
     half_open |-> FALSE, t183_signed_ts |-> TRUE, others_ok |-> TRUE,
     issues |-> {}, violation |-> "none", build |-> "none"]

\* The handler ends with an HTTP status.
Finish(rec, result, status) ==
    [rec EXCEPT !.pc = "done", !.result = result, !.status = status,
                !.attempt = 0, !.last_error = NoError, !.sleep_for = 0,
                !.wake = 0]

\* prepare_efile maps CircuitOpenError to 503 and RuntimeError to 502;
\* legacy_efile catches neither (500).
CircuitOpenStatus(kind) == IF kind = "xml" THEN 503 ELSE 500
TransmitFailedStatus(kind) == IF kind = "xml" THEN 502 ELSE 500

\* EfileClient.send: head of the while loop.  Either the next POST is started
\* or the call raises RuntimeError carrying last_error.
LoopHead(rec, max_retries) ==
    IF ShouldAttempt(rec.attempt, max_retries)
    THEN [rec EXCEPT !.pc = "inflight", !.sent = @ + 1]
    ELSE Finish([rec EXCEPT !.raised = rec.last_error], "transmit_failed",
                TransmitFailedStatus(rec.kind))

\* EfileClient.send up to its first suspension: _state() raises or returns,
\* then the loop is entered.  Yields the invocation and _CIRCUITS afterwards.
SendEnter(rec, circ, cfg, t) ==
    LET state == circ[rec.label]
    IN  IF CircuitIsOpen(state, t)
        THEN [sub |-> Finish(rec, "circuit_open", CircuitOpenStatus(rec.kind)),
              circuits |-> circ]
        ELSE [sub |-> LoopHead([rec EXCEPT !.half_open = CooldownPassed(state, t)],
                               cfg.transmit_max_retries),
              circuits |-> [circ EXCEPT ![rec.label] = StateAfterCheck(state, t)]]

\* A submission whose digest is registered before its artifacts are persisted.
PersistFailedRegistersDigest(app, digest) ==
    [app EXCEPT !.submission_digests = @ \cup {digest}]

\* prepare_xml_submission, lines 173-174: _persist_artifacts raised, so
\* cache.add is not reached; app is the state the failed call left behind.
PersistFailed(app, digest) == app

\* prepare_xml_submission on the application state app, for a request whose
\* prefile gate and package build succeed or not, with the reference id drawn
\* and the way persistence ends.  Yields the result and the state afterwards.
PrepareXmlSubmission(app, req, prefile_ok, build_ok, endpoint_override, profile_endpoint, sbmt_ref_id, persist) ==
    LET package == BuildT619Package(req, sbmt_ref_id)
        digest == DigestOf(package)
        endpoint == ResolveEndpoint(profile_endpoint, endpoint_override)
        entry == [digest |-> digest, sbmt_ref_id |-> sbmt_ref_id,
                  response |-> "none"]
        failed(result, status, d, state) ==
            [result |-> result, status |-> status, digest |-> d,
             endpoint |-> "", app |-> state]
    IN  IF ~prefile_ok THEN failed("prefile", 400, <<>>, app)
        ELSE IF ~build_ok THEN failed("build_error", 500, <<>>, app)
        ELSE IF IsDuplicate(digest, app.submission_digests)
            THEN failed("duplicate", 409, digest, app)
        ELSE IF endpoint = "" THEN failed("no_endpoint", 400, digest, app)
        ELSE IF persist = "fail_mkdir"
            THEN failed("persist_error", 500, digest, PersistFailed(app, digest))
        ELSE IF persist = "fail_summary"
            THEN failed("persist_error", 500, digest,
                        PersistFailed([app EXCEPT !.artifacts =
                                           @ \cup {<<sbmt_ref_id, digest>>}], digest))
        ELSE [result |-> "accepted", status |-> 0, digest |-> digest,
              endpoint |-> endpoint,
              app |-> [submission_digests |-> Register(app.submission_digests, digest),
                       summary_index |-> app.summary_index \cup {digest},
                       summaries |-> Append(app.summaries, entry),
                       artifacts |-> app.artifacts \cup {<<sbmt_ref_id, digest>>},
                       last_sbmt_ref_id |-> sbmt_ref_id]]

AppState ==
    [submission_digests |-> submission_digests, summary_index |-> summary_index,
     summaries |-> summaries, artifacts |-> artifacts,
     last_sbmt_ref_id |-> last_sbmt_ref_id]

SetAppState(app) ==
    /\ submission_digests' = app.submission_digests
    /\ summary_index' = app.summary_index
    /\ summaries' = app.summaries
    /\ artifacts' = app.artifacts
    /\ last_sbmt_ref_id' = app.last_sbmt_ref_id

\* Returns and reference ids are interchangeable values: they are numbered in
\* the order of their first use, so a request carries a return already seen or
\* the next new one, and a call draws a reference id already drawn or the next
\* new one.
SetMax(S) == IF S = {} THEN 0 ELSE CHOOSE x \in S : \A y \in S : y <= x
SeenReturns == {r \in ReturnInputs : r <= SetMax({sub[s].req : s \in Subs}) + 1}
SeenRefIds == {r \in RefIds : r <= SetMax({sub[s].sbmt_ref_id : s \in Subs}) + 1}

\* The requests of a run.  Arbitrary requests: any tax year, valid or not, any
\* return, any endpoint override, persistence failing or not.
AnyRequest ==
    [count |-> NumRequests, distinct |-> FALSE, tax_years |-> TaxYears,
     oks |-> BOOLEAN, endpoint_overrides |-> EndpointOverrides,
     persists |-> PersistOutcomes, signed |-> BOOLEAN,
     violations |-> SchemaViolations]

\* Well-formed requests: tax year 2025, valid, signed, conforming to the
\* schemas, each with a return and a reference id of its own, no endpoint
\* override, persistence working.
WellFormedRequest ==
    [count |-> NumTransmits, distinct |-> TRUE, tax_years |-> {2025},
     oks |-> {TRUE}, endpoint_overrides |-> {""}, persists |-> {"ok"},
     signed |-> {TRUE}, violations |-> {"none"}]

\* Requests that are well-formed except that the signing timestamp may be
\* missing.
GateRequest ==
    [WellFormedRequest EXCEPT !.count = NumRequests, !.signed = BOOLEAN]

\* Well-formed requests on the legacy JSON transport.
WellFormedLegacyRequest == [WellFormedRequest EXCEPT !.count = NumRequests]

\* Invocations are numbered in the order they start.  A run of well-formed
\* requests has at most MaxPosts POSTs to make.
Arrives(s, class) ==
    /\ s <= class.count
    /\ class.distinct => s * settings.transmit_max_retries <= MaxPosts
    /\ sub[s].pc = "idle"
    /\ IF s = 1 THEN TRUE ELSE sub[s - 1].pc # "idle"

\* ------------------------------------------------------------------ actions
Init ==
    /\ settings \in AppSettings
    /\ now = 1
    /\ circuits = [l \in Labels |-> ClosedCircuit]
    /\ submission_digests = {}
    /\ summary_index = {}
    /\ summaries = <<>>
    /\ artifacts = {}
    /\ last_sbmt_ref_id = 0
    /\ sub = [s \in Subs |-> IdleSub]
    /\ retention = EmptyRoot
    /\ lib = NoCall
    /\ compiled = {}

\* POST /efile/transmit: prepare_efile up to its first suspension point:
\* the checks of the handler, prepare_xml_submission, and EfileClient.send up
\* to its first POST.
PrepareEfile(s, class) ==
    /\ Arrives(s, class)
    /\ LET rec == [IdleSub EXCEPT !.kind = "xml"]
           rejected(result, status) ==
               /\ sub' = [sub EXCEPT ![s] = Finish(rec, result, status)]
               /\ UNCHANGED <<circuits, submission_digests, summary_index,
                              summaries, artifacts, last_sbmt_ref_id, compiled>>
       IN  IF ~settings.feature_efile_xml THEN rejected("feature_disabled", 503)
           ELSE \E tax_year \in class.tax_years :
             IF tax_year # 2025 THEN rejected("wrong_year", 400)
             ELSE IF ~settings.efile_window_open THEN rejected("window_closed", 503)
             ELSE \E input_ok \in class.oks :
               IF ~input_ok THEN rejected("invalid_input", 400)
               ELSE \E signed \in class.signed, others_ok \in class.oks,
                       violation \in class.violations,
                       req \in IF class.distinct THEN {s} ELSE SeenReturns,
                       endpoint_override \in class.endpoint_overrides,
                       sbmt_ref_id \in IF class.distinct THEN {s} ELSE SeenRefIds,
                       persist \in class.persists :
                 LET issues == PrefileIssues(signed, others_ok)
                     build == IF issues # {} THEN "none"
                              ELSE BuildOutcome(signed, violation)
                     prepared == PrepareXmlSubmission(AppState, req, issues = {},
                                     build = "ok", endpoint_override,
                                     settings.endpoint, sbmt_ref_id, persist)
                     gated == [rec EXCEPT !.t183_signed_ts = signed,
                                          !.others_ok = others_ok,
                                          !.issues = issues,
                                          !.violation = IF build = "none" THEN "none"
                                                        ELSE violation,
                                          !.build = build]
                     held == IF prepared.digest = <<>> THEN gated
                             ELSE [gated EXCEPT !.req = req,
                                                !.digest = prepared.digest,
                                                !.sbmt_ref_id = sbmt_ref_id]
                     client == [held EXCEPT !.label = RStripSlash(prepared.endpoint),
                                            !.content_type = "application/xml"]
                     entered == SendEnter(client, circuits, settings, now)
                 IN  /\ SetAppState(prepared.app)
                     /\ compiled' = IF issues # {} THEN compiled
                                    ELSE CompiledAfter(compiled, TRUE, signed, violation)
                     /\ IF prepared.result = "accepted"
                        THEN /\ sub' = [sub EXCEPT ![s] = entered.sub]
                             /\ circuits' = entered.circuits
                        ELSE /\ sub' = [sub EXCEPT ![s] =
                                    Finish(held, prepared.result, prepared.status)]
                             /\ UNCHANGED circuits
    /\ UNCHANGED <<settings, now, retention, lib>>

\* POST /legacy/efile: legacy_efile up to its first suspension point.  The
\* JSON transport goes through the same EfileClient.
LegacyEfile(s, class) ==
    /\ Arrives(s, class)
    /\ \E tax_year \in class.tax_years, input_ok \in class.oks,
          endpoint_override \in class.endpoint_overrides :
        LET rec == [IdleSub EXCEPT !.kind = "legacy"]
            base_url == IF endpoint_override # "" THEN endpoint_override
                        ELSE IF settings.endpoint # "" THEN settings.endpoint
                        ELSE "localhost"
            client == [rec EXCEPT !.label = RStripSlash(base_url),
                                  !.content_type = "application/json"]
            entered == SendEnter(client, circuits, settings, now)
            rejected(result, status) ==
                /\ sub' = [sub EXCEPT ![s] = Finish(rec, result, status)]
                /\ UNCHANGED circuits
        IN  IF ~settings.feature_legacy_efile THEN rejected("legacy_disabled", 410)
            ELSE IF ~input_ok THEN rejected("invalid_input", 400)
            ELSE IF tax_year \notin {2024, 2025} THEN rejected("wrong_year", 400)
            ELSE /\ sub' = [sub EXCEPT ![s] = entered.sub]
                 /\ circuits' = entered.circuits
    /\ UNCHANGED <<settings, now, submission_digests, summary_index, summaries,
                   artifacts, last_sbmt_ref_id>>
    /\ UNCHANGED libvars

\* The exception an attempt ends with, and the POST that raised it:
\* httpx.HTTPError (HTTPStatusError from raise_for_status, TimeoutException
\* and the other transport errors) or the JSONDecodeError of response.json().
ErrorOf(outcome, sent) ==
    [kind |-> IF outcome = "2xx_text" THEN "JSONDecodeError" ELSE "HTTPError",
     attempt |-> sent]

\* The circuit state when the except block is entered: a 2xx response has
\* passed raise_for_status and _record_success before response.json() raises.
StateBeforeFailure(state, outcome) ==
    IF outcome \in {"2xx_json", "2xx_text"} THEN RecordSuccess(state) ELSE state

\* The POST of invocation s completes and the try block runs to its return:
\* _record_success, then the handler's epilogue (record_transmit_outcome on
\* the XML path).
AttemptReturns(s) ==
    /\ sub[s].pc = "inflight"
    /\ \E outcome \in AttemptOutcomes :
        /\ AttemptSucceeds(outcome, sub[s].content_type)
        /\ circuits' = [circuits EXCEPT ![sub[s].label] = RecordSuccess(@)]
        /\ sub' = [sub EXCEPT ![s] =
               Finish([@ EXCEPT !.got_2xx = @ + 1], "returned", 200)]
        /\ summaries' = IF sub[s].kind = "xml"
                        THEN RecordTransmitOutcome(summaries, summary_index,
                                                   sub[s].digest, "sent")
                        ELSE summaries
    /\ UNCHANGED <<settings, now, submission_digests, summary_index, artifacts,
                   last_sbmt_ref_id>>
    /\ UNCHANGED libvars

\* The POST of invocation s ends in an exception: the except block runs
\* (last_error, attempt, _record_failure, sleep_for) up to asyncio.sleep.
AttemptFails(s) ==
    /\ sub[s].pc = "inflight"
    /\ \E outcome \in AttemptOutcomes :
        /\ ~AttemptSucceeds(outcome, sub[s].content_type)
        /\ LET attempt == sub[s].attempt + 1
               sleep_for == SleepFor(settings.transmit_backoff_factor, attempt)
           IN  /\ circuits' = [circuits EXCEPT ![sub[s].label] =
                      RecordFailure(StateBeforeFailure(@, outcome),
                                    settings.transmit_circuit_cooldown,
                                    settings.transmit_circuit_threshold, now)]
               /\ sub' = [sub EXCEPT ![s] =
                      [@ EXCEPT !.pc = "sleeping",
                                !.attempt = attempt,
                                !.last_error = NextLastError(@, ErrorOf(outcome, sub[s].sent)),
                                !.sleep_for = sleep_for,
                                !.wake = now + sleep_for,
                                !.got_2xx = IF outcome \in {"2xx_json", "2xx_text"}
                                            THEN @ + 1 ELSE @]]
    /\ UNCHANGED <<settings, now, submission_digests, summary_index, summaries,
                   artifacts, last_sbmt_ref_id>>
    /\ UNCHANGED libvars

\* asyncio.sleep returns: back to the head of the loop.
Wake(s) ==
    /\ sub[s].pc = "sleeping"
    /\ now >= sub[s].wake
    /\ sub' = [sub EXCEPT ![s] = LoopHead(@, settings.transmit_max_retries)]
    /\ UNCHANGED <<settings, now, circuits, submission_digests, summary_index,
                   summaries, artifacts, last_sbmt_ref_id>>
    /\ UNCHANGED libvars

\* Some deadline lies ahead: a back-off sleep or an open circuit.
DeadlinePending ==
    \/ \E s \in Subs : sub[s].pc = "sleeping" /\ now < sub[s].wake
    \/ \E l \in Labels : now < circuits[l].open_until

\* The wall clock advances.  The program reads the clock only to compare it
\* with a deadline, so the clock is moved only while one lies ahead.
Tick ==
    /\ now < MaxTime
    /\ DeadlinePending
    /\ now' = now + 1
    /\ UNCHANGED <<settings, circuits, submission_digests, summary_index,
                   summaries, artifacts, last_sbmt_ref_id, sub>>
    /\ UNCHANGED libvars

Next ==
    \/ \E s \in Subs : PrepareEfile(s, AnyRequest)
    \/ \E s \in Subs : LegacyEfile(s, AnyRequest)
    \/ \E s \in Subs : AttemptReturns(s)
    \/ \E s \in Subs : AttemptFails(s)
    \/ \E s \in Subs : Wake(s)
    \/ Tick

Spec == Init /\ [][Next]_vars

\* Runs of well-formed XML submissions, under every validated setting of the
\* retry and circuit parameters.
InitTransmit ==
    /\ settings \in TransmitSettings
    /\ now = 1
    /\ circuits = [l \in Labels |-> ClosedCircuit]
    /\ submission_digests = {}
    /\ summary_index = {}
    /\ summaries = <<>>
    /\ artifacts = {}
    /\ last_sbmt_ref_id = 0
    /\ sub = [s \in Subs |-> IdleSub]
    /\ retention = EmptyRoot
    /\ lib = NoCall
    /\ compiled = {}

NextTransmit ==
    \/ \E s \in Subs : PrepareEfile(s, WellFormedRequest)
    \/ \E s \in Subs : AttemptReturns(s)
    \/ \E s \in Subs : AttemptFails(s)
    \/ \E s \in Subs : Wake(s)
    \/ Tick

SpecTransmit == InitTransmit /\ [][NextTransmit]_vars

\* Runs of well-formed requests on the legacy JSON transport, with one retry
\* and a circuit that opens at the second failure.
LegacySettings ==
    { s \in TransmitSettings :
        s.transmit_max_retries = 2 /\ s.transmit_circuit_threshold = 2 }

InitLegacy ==
    /\ settings \in LegacySettings
    /\ now = 1
    /\ circuits = [l \in Labels |-> ClosedCircuit]
    /\ submission_digests = {}
    /\ summary_index = {}
    /\ summaries = <<>>
    /\ artifacts = {}
    /\ last_sbmt_ref_id = 0
    /\ sub = [s \in Subs |-> IdleSub]
    /\ retention = EmptyRoot
    /\ lib = NoCall
    /\ compiled = {}

NextLegacy ==
    \/ \E s \in Subs : LegacyEfile(s, WellFormedLegacyRequest)
    \/ \E s \in Subs : AttemptReturns(s)
    \/ \E s \in Subs : AttemptFails(s)
    \/ \E s \in Subs : Wake(s)
    \/ Tick

SpecLegacy == InitLegacy /\ [][NextLegacy]_vars

\* ---------------------------------------------------------- library calls
\* Settings of the runs that call library functions directly.
LibrarySettings ==
    { s \in AllSettings :
        /\ SwitchesOff(s) = 0
        /\ s.transmit_max_retries = 1 /\ s.transmit_circuit_threshold = 1
        /\ s.transmit_circuit_cooldown = 2 }

InitLibrary(cfgs) ==
    /\ settings \in cfgs
    /\ now = 1
    /\ circuits = [l \in Labels |-> ClosedCircuit]
    /\ submission_digests = {}
    /\ summary_index = {}
    /\ summaries = <<>>
    /\ artifacts = {}
    /\ last_sbmt_ref_id = 0
    /\ sub = [s \in Subs |-> IdleSub]
    /\ retention = EmptyRoot
    /\ lib = NoCall
    /\ compiled = {}

\* prepare_xml_submission, lines 155-156, on one tuple of inputs.
DigestCall ==
    /\ \E t \in DigestTuples :
           lib' = Called(lib, "digest", t,
                         CanonicalSource(t.t1_xml, t.t183_xml, t.environment,
                                         t.software_id, t.software_version,
                                         t.transmitter_id))
    /\ UNCHANGED <<settings, retention, compiled>>
    /\ UNCHANGED appvars

\* build_t619_package called directly: the arguments of a call, and what the
\* call gives back, the exception it raises or the package it returns.
BuildArgs ==
    [req : {1, 2}, t183_signed_ts : BOOLEAN,
     violation : {"none", "T619Transmission"}, sbmt_ref_id : {1, 2},
     schemas_loaded : BOOLEAN]

NoPackage ==
    [sbmt_ref_id |-> 0, t1_xml |-> <<>>, t183_xml |-> <<>>, envelope_xml |-> <<>>]

BuildResult(cache, a) ==
    LET outcome == BuildOutcomeWith(cache, a.schemas_loaded, a.t183_signed_ts,
                                    a.violation)
    IN  [outcome |-> outcome,
         package |-> IF outcome = "ok" THEN BuildT619Package(a.req, a.sbmt_ref_id)
                     ELSE NoPackage]

BuildCall(args) ==
    /\ \E a \in args :
           /\ lib' = Called(lib, "build", a, BuildResult(compiled, a))
           /\ compiled' = CompiledAfter(compiled, a.schemas_loaded,
                                        a.t183_signed_ts, a.violation)
    /\ UNCHANGED <<settings, retention>>
    /\ UNCHANGED appvars

\* Runs of submissions with or without a signing timestamp, next to direct
\* calls of build_t619_package.
GateBuildArgs ==
    {a \in BuildArgs : a.req = 1 /\ a.sbmt_ref_id = 1 /\ a.schemas_loaded}

InitGate == InitLibrary({s \in LibrarySettings : RetentionDefaults(s)})

NextGate ==
    \/ \E s \in Subs : PrepareEfile(s, GateRequest)
    \/ \E s \in Subs : AttemptReturns(s)
    \/ \E s \in Subs : AttemptFails(s)
    \/ \E s \in Subs : Wake(s)
    \/ Tick
    \/ BuildCall(GateBuildArgs)

SpecGate == InitGate /\ [][NextGate]_vars

\* Direct calls of build_t619_package on signed returns and of
\* _serialize_payload, with time passing between the calls.
SignedBuildArgs == {a \in BuildArgs : a.t183_signed_ts}

\* dict of payload documents, as the sequence of its items
PayloadDocuments ==
    {<<<<"T1Return", a>>, <<"T183Authorization", b>>>> : a \in {1, 2}, b \in {1, 2}}
        \cup {<<<<"T183Authorization", b>>, <<"T1Return", a>>>> : a \in {1, 2}, b \in {1, 2}}

SerializeCall ==
    /\ \E documents \in PayloadDocuments :
           lib' = Called(lib, "serialize", documents, SerializePayload(documents))
    /\ UNCHANGED <<settings, retention, compiled>>
    /\ UNCHANGED appvars

TimePasses ==
    /\ now < MaxTime
    /\ now' = now + 1
    /\ UNCHANGED <<settings, circuits, submission_digests, summary_index,
                   summaries, artifacts, last_sbmt_ref_id, sub>>
    /\ UNCHANGED libvars

InitBuild == InitLibrary({s \in LibrarySettings : RetentionDefaults(s)})

NextBuild ==
    \/ BuildCall(SignedBuildArgs)
    \/ SerializeCall
    \/ TimePasses

SpecBuild == InitBuild /\ [][NextBuild]_vars

InitDigest == InitLibrary({s \in LibrarySettings : RetentionDefaults(s)})

NextDigest == DigestCall

SpecDigest == InitDigest /\ [][NextDigest]_vars

\* ----------------------------------------------------- app/efile/crypto.py
\* _cipher(): None without a key, EncryptionError for a key that is no Fernet
\* key, the cipher of the key otherwise.
Cipher(s) ==
    IF s.t183_crypto_key = "" THEN "None"
    ELSE IF s.t183_crypto_key = "bad" THEN "EncryptionError"
    ELSE s.t183_crypto_key

Raised(exception) == [raised |-> exception, value |-> NoBytes]
Returned(value) == [raised |-> "none", value |-> value]

\* encrypt(data), for data that are no token themselves
Encrypt(s, data) ==
    IF Cipher(s) = "None" THEN Returned(data)
    ELSE IF Cipher(s) = "EncryptionError" THEN Raised("EncryptionError")
    ELSE Returned([data EXCEPT !.token_of = Cipher(s)])

\* decrypt(data): InvalidToken becomes EncryptionError
Decrypt(s, data) ==
    IF Cipher(s) = "None" THEN Returned(data)
    ELSE IF Cipher(s) = "EncryptionError" THEN Raised("EncryptionError")
    ELSE IF data.token_of = Cipher(s) THEN Returned([data EXCEPT !.token_of = ""])
    ELSE Raised("EncryptionError")

\* Arguments of direct calls of encrypt and decrypt.
Plaintexts ==
    {[token_of |-> "", body |-> "record", expires_at |-> IsoFormat(e)] : e \in Expiries}
        \cup {[token_of |-> "", body |-> "invalid_json", expires_at |-> <<>>]}
Ciphertexts == {[d EXCEPT !.token_of = k] : d \in Plaintexts, k \in {"K1", "K2"}}

EncryptCall ==
    /\ \E data \in Plaintexts :
           lib' = Called(lib, "encrypt", data, Encrypt(settings, data))
    /\ UNCHANGED <<settings, retention, compiled>>
    /\ UNCHANGED appvars

DecryptCall ==
    /\ \E data \in Plaintexts \cup Ciphertexts :
           lib' = Called(lib, "decrypt", data, Decrypt(settings, data))
    /\ UNCHANGED <<settings, retention, compiled>>
    /\ UNCHANGED appvars

InitCrypto ==
    InitLibrary({s \in LibrarySettings : ~s.retention_t2183_enabled})

NextCrypto == EncryptCall \/ DecryptCall

SpecCrypto == InitCrypto /\ [][NextCrypto]_vars

\* ------------------------------------------------------- app/efile/t183.py
\* Most files the retention root holds in a run.
MaxFiles == 2
\* Longest reject code looked up, in characters, before padding.
MaxCodeLen == 4

Files(root) == {p \in RetentionPaths : root[p] # NoBytes}

\* _store_authorization: json.dumps of the serialized record
JsonDumps(record) ==
    [token_of |-> "", body |-> "record", expires_at |-> IsoFormat(record.expires_at)]

\* _store_authorization: target_dir / f"{prefix}_{int(filed_at.timestamp())}.enc"
RecordPath(record, tax_year, original_sin, prefix) ==
    <<tax_year, original_sin, prefix, record.filed_at>>

NoPath == <<>>

\* A store that writes the serialized record as it is.
StoreAuthorizationPlain(s, root, record, prefix) ==
    [root |-> [root EXCEPT ![RecordPath(record, 2025, "6789", prefix)] = JsonDumps(record)],
     raised |-> "none",
     path |-> RecordPath(record, 2025, "6789", prefix)]

\* _store_authorization: the root after the call, the exception it raised and
\* the path it returned.
StoreAuthorization(s, root, record, prefix) ==
    LET encrypted == Encrypt(s, JsonDumps(record))
        path == RecordPath(record, 2025, "6789", prefix)
    IN  IF encrypted.raised # "none"
        THEN [root |-> root, raised |-> encrypted.raised, path |-> NoPath]
        ELSE [root |-> [root EXCEPT ![path] = encrypted.value],
              raised |-> "none", path |-> path]

\* _purge_authorizations, lines 127-135: the file is read, decrypted, parsed
\* and has an expires_at that parses.
Readable(s, file) ==
    /\ file # Unreadable
    /\ Decrypt(s, file).raised = "none"
    /\ Decrypt(s, file).value.token_of = ""
    /\ Decrypt(s, file).value.body = "record"

ExpiresAt(s, file) == FromIsoFormat(Decrypt(s, file).value.expires_at)

\* A comparison that spares the record expiring at the time of the purge.
ExpiredStrictly(expires_at, check_time) == expires_at < check_time

\* _purge_authorizations, line 135
Expired(expires_at, check_time) == expires_at <= check_time

\* A purge that deletes what it cannot read as well.
PurgeAuthorizationsAll(s, root, prefix, as_of) ==
    LET removed == {p \in Files(root) :
                       /\ p[3] = prefix
                       /\ IF Readable(s, root[p])
                          THEN Expired(ExpiresAt(s, root[p]), as_of)
                          ELSE TRUE}
    IN  [root |-> [p \in RetentionPaths |-> IF p \in removed THEN NoBytes ELSE root[p]],
         removed |-> removed]

\* _purge_authorizations: the root after the sweep and the paths removed.
PurgeAuthorizations(s, root, prefix, as_of) ==
    LET removed == {p \in Files(root) :
                       /\ p[3] = prefix
                       /\ IF Readable(s, root[p])
                          THEN Expired(ExpiresAt(s, root[p]), as_of)
                          ELSE FALSE}
    IN  [root |-> [p \in RetentionPaths |-> IF p \in removed THEN NoBytes ELSE root[p]],
         removed |-> removed]

\* A store_t2183 that does not look at the flag.
StoreT2183Always(s, root, record) == StoreAuthorization(s, root, record, "t2183")

\* store_t2183: None, and no file, when the flag is off
StoreT2183(s, root, record) ==
    IF ~s.retention_t2183_enabled
    THEN [root |-> root, raised |-> "none", path |-> NoPath]
    ELSE StoreAuthorization(s, root, record, "t2183")

\* purge_t2183: [] when the flag is off
PurgeT2183(s, root, as_of) ==
    IF ~s.retention_t2183_enabled THEN [root |-> root, removed |-> {}]
    ELSE PurgeAuthorizations(s, root, "t2183", as_of)

\* The call op(args) is the last step taken.
LastCall(op, args, result) == Called(NoCall, op, args, result)

\* A store may take the place of a file; it adds one while there is room.
Room(root, path) == root[path] # NoBytes \/ Cardinality(Files(root)) < MaxFiles

StoreSignedCall ==
    /\ \E record \in Records :
           LET out == StoreAuthorization(settings, retention, record, "t183")
           IN  /\ Room(retention, RecordPath(record, 2025, "6789", "t183"))
               /\ retention' = out.root
               /\ lib' = LastCall("store_signed", record,
                                  [raised |-> out.raised, path |-> out.path])
    /\ UNCHANGED <<settings, compiled>>
    /\ UNCHANGED appvars

StoreT2183Call ==
    /\ \E record \in Records :
           LET out == StoreT2183(settings, retention, record)
           IN  /\ Room(retention, RecordPath(record, 2025, "6789", "t2183"))
               /\ retention' = out.root
               /\ lib' = LastCall("store_t2183", record,
                                  [raised |-> out.raised, path |-> out.path])
    /\ UNCHANGED <<settings, compiled>>
    /\ UNCHANGED appvars

PurgeExpiredCall ==
    /\ \E as_of \in AsOfs :
           LET out == PurgeAuthorizations(settings, retention, "t183", as_of)
           IN  /\ retention' = out.root
               /\ lib' = LastCall("purge_expired", as_of, out.removed)
    /\ UNCHANGED <<settings, compiled>>
    /\ UNCHANGED appvars

PurgeT2183Call ==
    /\ \E as_of \in AsOfs :
           LET out == PurgeT2183(settings, retention, as_of)
           IN  /\ retention' = out.root
               /\ lib' = LastCall("purge_t2183", as_of, out.removed)
    /\ UNCHANGED <<settings, compiled>>
    /\ UNCHANGED appvars

\* Files that get under the retention root otherwise: records written by an
\* earlier process without a key or with another key, damaged files, files
\* that cannot be read.
ForeignFiles ==
    {[token_of |-> k, body |-> "record", expires_at |-> IsoFormat(1)] : k \in {"", "K2"}}
        \cup {[token_of |-> "", body |-> "no_expires_at", expires_at |-> <<>>],
              [token_of |-> "", body |-> "invalid_json", expires_at |-> <<>>],
              Unreadable}

FileAppears ==
    /\ \E p \in RetentionPaths, file \in ForeignFiles :
           /\ retention[p] = NoBytes
           /\ Cardinality(Files(retention)) < MaxFiles
           /\ retention' = [retention EXCEPT ![p] = file]
    /\ lib' = NoCall
    /\ UNCHANGED <<settings, compiled>>
    /\ UNCHANGED appvars

InitRetention == InitLibrary(LibrarySettings)

NextRetention ==
    \/ StoreSignedCall
    \/ StoreT2183Call
    \/ PurgeExpiredCall
    \/ PurgeT2183Call
    \/ FileAppears

SpecRetention == InitRetention /\ [][NextRetention]_vars

\* ------------------------------------------- app/core/validate/pre_submit.py
\* A caller is about to call f(a): the arguments are drawn when the run
\* starts and the call is made once.
Asked(f, a) == Called(NoCall, "asked", [f |-> f, a |-> a], <<>>)

\* An optional amount or number: <<>> for None or a missing key, <<v>> for v.
None == <<>>
Some(v) == <<v>>

\* _MAX_SLIPS_PER_TYPE
MaxSlipsPerType == 50

\* ValidationIssue(code, message, field)
Issue(code, field) == [code |-> code, field |-> field]

\* issues.append(...) under a condition
IssueIf(condition, code, field) ==
    IF condition THEN <<Issue(code, field)>> ELSE <<>>

\* The issues of the slips of a list, slip after slip.
RECURSIVE Flatten(_)
Flatten(lists) ==
    IF lists = <<>> THEN <<>> ELSE Head(lists) \o Flatten(Tail(lists))

\* _field_path(collection, index, field), index counted from 0
FieldPath(collection, index, field) == <<collection, index - 1, field>>

Negative(amount) == amount # None /\ amount[1] < 0
Positive(amount) == amount # None /\ amount[1] > 0

\* _validate_identity_fields.  The format checks of SIN, names, date of
\* birth, address and postal code are taken by their outcome.
ValidateIdentityFields(identity) ==
    IssueIf(~identity.sin_ok, "10001", <<"sin">>)
        \o IssueIf(~identity.name_ok, "10002", <<"name">>)
        \o IssueIf(~identity.dob_ok, "10003", <<"dob">>)
        \o IssueIf(~identity.address_ok, "10004", <<"address">>)
        \o IssueIf(identity.province # "ON", "10005", <<"province">>)
        \o IssueIf(~identity.postal_ok, "10006", <<"postal_code">>)

\* _validate_slip_counts
ValidateSlipCounts(slips, reported_count, collection) ==
    IssueIf(reported_count # None
                /\ (reported_count[1] < 0 \/ reported_count[1] # Len(slips)),
            "60012", <<collection>>)
        \o IssueIf(Len(slips) > MaxSlipsPerType
                       \/ (reported_count # None
                              /\ reported_count[1] > MaxSlipsPerType),
                   "60018", <<collection>>)

\* _validate_t4_slips; the optional boxes of a slip are left empty.
ValidateT4Slips(slips, reported_count) ==
    ValidateSlipCounts(slips, reported_count, "slips_t4")
        \o Flatten([i \in 1..Len(slips) |->
               IF slips[i].employment_income = None
               THEN <<Issue("60010", FieldPath("slips_t4", i, "employment_income"))>>
               ELSE IssueIf(Negative(slips[i].employment_income), "60011",
                            FieldPath("slips_t4", i, "employment_income"))])

\* _validate_t4a_slips, for slips with pension income and tax deducted
ValidateT4aSlips(slips, reported_count) ==
    ValidateSlipCounts(slips, reported_count, "slips_t4a")
        \o Flatten([i \in 1..Len(slips) |->
               IssueIf(Negative(slips[i].pension_income), "60014",
                       FieldPath("slips_t4a", i, "pension_income"))
                   \o IssueIf(Negative(slips[i].tax_deducted), "60014",
                              FieldPath("slips_t4a", i, "tax_deducted"))
                   \o IssueIf(~Positive(slips[i].pension_income), "60013",
                              FieldPath("slips_t4a", i, ""))])

\* foreign_tax > (foreign_income or 0)
ForeignTaxExceeds(slip) ==
    /\ slip.foreign_tax_withheld # None
    /\ slip.foreign_tax_withheld[1] >
           (IF slip.foreign_income = None THEN 0 ELSE slip.foreign_income[1])

\* _validate_t5_slips, for slips with interest and foreign income
ValidateT5Slips(slips, reported_count) ==
    ValidateSlipCounts(slips, reported_count, "slips_t5")
        \o Flatten([i \in 1..Len(slips) |->
               IssueIf(Negative(slips[i].interest_income), "60016",
                       FieldPath("slips_t5", i, "interest_income"))
                   \o IssueIf(Negative(slips[i].foreign_income), "60016",
                              FieldPath("slips_t5", i, "foreign_income"))
                   \o IssueIf(Negative(slips[i].foreign_tax_withheld), "60016",
                              FieldPath("slips_t5", i, "foreign_tax_withheld"))
                   \o IssueIf(ForeignTaxExceeds(slips[i]), "60017",
                              FieldPath("slips_t5", i, "foreign_tax_withheld"))
                   \o IssueIf(~Positive(slips[i].interest_income)
                                  /\ ~Positive(slips[i].foreign_income),
                              "60015", FieldPath("slips_t5", i, ""))])

\* _validate_tuition_slips: the issues; months are left empty.
ValidateTuitionSlips(slips) ==
    Flatten([i \in 1..Len(slips) |->
        IssueIf(slips[i].eligible_tuition = None
                    \/ Negative(slips[i].eligible_tuition),
                "61010", FieldPath("tuition_slips", i, "eligible_tuition"))])

\* _validate_tuition_slips: the total it returns
RECURSIVE TuitionTotal(_)
TuitionTotal(slips) ==
    IF slips = <<>> THEN 0
    ELSE (IF Head(slips).eligible_tuition = None
             \/ Negative(Head(slips).eligible_tuition)
          THEN 0 ELSE Head(slips).eligible_tuition[1])
         + TuitionTotal(Tail(slips))

NonNegative(amount) == IF Positive(amount) THEN amount[1] ELSE 0

\* _validate_tuition_claims
ValidateTuitionClaims(total, claim, transfer) ==
    IssueIf(Negative(claim), "61012", <<"tuition_claim">>)
        \o IssueIf(Negative(transfer), "61013", <<"tuition_transfer_to_spouse">>)
        \o IssueIf(NonNegative(claim) > total, "61014", <<"tuition_claim">>)
        \o IssueIf(NonNegative(claim) + NonNegative(transfer) > total,
                   "61015", <<"tuition_transfer_to_spouse">>)

\* _validate_rrsp_amount
ValidateRrspAmount(value) == IssueIf(Negative(value), "30011", <<"rrsp_contrib">>)

\* validate_before_efile, lines 405-440: the checks of the payload
PayloadIssues(identity, p) ==
    IssueIf((IF p.taxable_income = None THEN 0 ELSE p.taxable_income[1]) < 0,
            "30010", <<"taxable_income">>)
        \o IssueIf((IF p.province # "" THEN p.province ELSE identity.province) # "ON",
                   "10005", <<"province">>)
        \o IssueIf(p.tax_year # None /\ p.tax_year[1] \notin {2024, 2025},
                   "20001", <<"tax_year">>)
        \o IssueIf(~p.t183_signed_ts, "50010", <<"t183">>)
        \o IssueIf(~p.t183_ip_hash \/ ~p.t183_user_agent_hash, "50011", <<"t183">>)
        \o ValidateT4Slips(p.slips_t4, p.slips_t4_count)
        \o ValidateT4aSlips(p.slips_t4a, p.slips_t4a_count)
        \o ValidateT5Slips(p.slips_t5, p.slips_t5_count)
        \o ValidateTuitionSlips(p.tuition_slips)
        \o ValidateTuitionClaims(TuitionTotal(p.tuition_slips), p.tuition_claim,
                                 p.tuition_transfer_to_spouse)
        \o ValidateRrspAmount(p.rrsp_contrib)

\* A validation that returns at the first block of checks that finds issues.
ValidateBeforeEfileFirstOnly(identity, return_payload) ==
    IF ValidateIdentityFields(identity) # <<>>
    THEN ValidateIdentityFields(identity)
    ELSE PayloadIssues(identity, return_payload)

\* validate_before_efile: the list of issues
ValidateBeforeEfile(identity, return_payload) ==
    ValidateIdentityFields(identity) \o PayloadIssues(identity, return_payload)

\* enforce_prefile_gates (service.py): the payload it hands to
\* validate_before_efile has six keys; every other key is missing.
GatePayload(req) ==
    [taxable_income |-> req.taxable_income, province |-> req.province,
     tax_year |-> req.tax_year, t183_signed_ts |-> req.t183_signed_ts,
     t183_ip_hash |-> req.t183_ip_hash,
     t183_user_agent_hash |-> req.t183_user_agent_hash,
     slips_t4 |-> <<>>, slips_t4_count |-> None,
     slips_t4a |-> <<>>, slips_t4a_count |-> None,
     slips_t5 |-> <<>>, slips_t5_count |-> None,
     tuition_slips |-> <<>>, tuition_claim |-> None,
     tuition_transfer_to_spouse |-> None, rrsp_contrib |-> None]

\* enforce_prefile_gates: the issues it raises PrefileValidationError with
\* (<<>>: it returns).  The request is given as the payload of all its fields.
EnforcePrefileGates(identity, req) == ValidateBeforeEfile(identity, GatePayload(req))

\* Identities: in order, with one field out of order, with every field out
\* of order.
GoodIdentity ==
    [sin_ok |-> TRUE, name_ok |-> TRUE, dob_ok |-> TRUE, address_ok |-> TRUE,
     province |-> "ON", postal_ok |-> TRUE]

Identities ==
    {GoodIdentity,
     [GoodIdentity EXCEPT !.sin_ok = FALSE], [GoodIdentity EXCEPT !.province = "XX"],
     [sin_ok |-> FALSE, name_ok |-> FALSE, dob_ok |-> FALSE, address_ok |-> FALSE,
      province |-> "XX", postal_ok |-> FALSE]}

GoodT4 == [employment_income |-> Some(1)]
GoodT5 == [interest_income |-> Some(1), foreign_income |-> None, foreign_tax_withheld |-> None]

\* Payloads: every combination of the values that pass and fail each check.
Payloads ==
    [taxable_income : {Some(-1), Some(1)}, province : {"", "XX"},
     tax_year : {Some(2025), Some(2026)}, t183_signed_ts : BOOLEAN,
     t183_ip_hash : BOOLEAN, t183_user_agent_hash : {TRUE},
     slips_t4 : {<<>>, <<[employment_income |-> None]>>,
                 [i \in 1..(MaxSlipsPerType + 1) |-> GoodT4]},
     slips_t4_count : {None, Some(1)},
     slips_t4a : {<<>>, <<[pension_income |-> None, tax_deducted |-> Some(-1)]>>},
     slips_t4a_count : {None},
     slips_t5 : {<<>>,
                 <<[GoodT5 EXCEPT !.foreign_income = Some(1),
                                  !.foreign_tax_withheld = Some(2)]>>},
     slips_t5_count : {None},
     tuition_slips : {<<[eligible_tuition |-> Some(1)]>>},
     tuition_claim : {None, Some(2)},
     tuition_transfer_to_spouse : {None},
     rrsp_contrib : {None, Some(-1)}]

ValidateInputs == [identity : Identities, payload : Payloads]

\* Requests handed to the gate: the identity in order, every payload.
GateInputs == [identity : {GoodIdentity}, payload : Payloads]

ValidateCall ==
    /\ lib.op = "asked" /\ lib.args.f = "validate_before_efile"
    /\ lib' = Called(lib, "validate_before_efile", lib.args.a,
                     ValidateBeforeEfile(lib.args.a.identity, lib.args.a.payload))
    /\ UNCHANGED <<settings, retention, compiled>>
    /\ UNCHANGED appvars

GateCall ==
    /\ lib.op = "asked" /\ lib.args.f = "enforce_prefile_gates"
    /\ lib' = Called(lib, "enforce_prefile_gates", lib.args.a,
                     EnforcePrefileGates(lib.args.a.identity, lib.args.a.payload))
    /\ UNCHANGED <<settings, retention, compiled>>
    /\ UNCHANGED appvars

\* The state before one call, out of a set of calls, of a function of its
\* arguments alone.
InitAsked(calls) ==
    /\ settings = CHOOSE s \in LibrarySettings : RetentionDefaults(s)
    /\ now = 1
    /\ circuits = [l \in Labels |-> ClosedCircuit]
    /\ submission_digests = {}
    /\ summary_index = {}
    /\ summaries = <<>>
    /\ artifacts = {}
    /\ last_sbmt_ref_id = 0
    /\ sub = [s \in Subs |-> IdleSub]
    /\ retention = EmptyRoot
    /\ lib \in calls
    /\ compiled = {}

InitValidate ==
    InitAsked({Asked("validate_before_efile", a) : a \in ValidateInputs}
                  \cup {Asked("enforce_prefile_gates", a) : a \in GateInputs})

NextValidate == ValidateCall \/ GateCall

SpecValidate == InitValidate /\ [][NextValidate]_vars

\* ----------------------------------------- app/efile/t183.py: build_record
\* RETENTION_YEARS
RetentionYears == 6

\* datetime.MAXYEAR
MaxYear == 9999

\* A datetime: a calendar date, the second of the day, and the time zone
\* ("naive" for none).
IsLeap(year) == year % 4 = 0 /\ (year % 100 # 0 \/ year % 400 = 0)

DaysInMonth(year, month) ==
    CASE month = 2 -> IF IsLeap(year) THEN 29 ELSE 28
      [] month \in {4, 6, 9, 11} -> 30
      [] OTHER -> 31

ValidDate(dt) ==
    /\ dt.year \in 1..MaxYear /\ dt.month \in 1..12
    /\ dt.day \in 1..DaysInMonth(dt.year, dt.month)

DateTime(year, month, day, second, tz) ==
    [year |-> year, month |-> month, day |-> day, second |-> second, tz |-> tz]

RECURSIVE DaysBeforeMonth(_, _)
DaysBeforeMonth(year, month) ==
    IF month = 1 THEN 0
    ELSE DaysBeforeMonth(year, month - 1) + DaysInMonth(year, month - 1)

\* Days before January 1 of the year, counted from 0001-01-01
DaysBeforeYear(year) ==
    365 * (year - 1) + (year - 1) \div 4 - (year - 1) \div 100 + (year - 1) \div 400

\* date.toordinal(): days since 0001-01-01, which is day 1
ToOrdinal(dt) == DaysBeforeYear(dt.year) + DaysBeforeMonth(dt.year, dt.month) + dt.day

\* date.fromordinal(n), with the time of day and zone of dt
FromOrdinal(n, dt) ==
    LET year == CHOOSE y \in ((n \div 366) + 1)..((n \div 365) + 1) :
                    DaysBeforeYear(y) < n /\ n <= DaysBeforeYear(y + 1)
        rest == n - DaysBeforeYear(year)
        month == CHOOSE m \in 1..12 :
                     /\ DaysBeforeMonth(year, m) < rest
                     /\ rest <= DaysBeforeMonth(year, m) + DaysInMonth(year, m)
    IN  DateTime(year, month, rest - DaysBeforeMonth(year, month), dt.second, dt.tz)

\* The result of a call that raised ValueError, or returned a record.
NoDateTime == DateTime(0, 0, 0, 0, "naive")
ValueError == [outcome |-> "ValueError", filed_at |-> NoDateTime, expires_at |-> NoDateTime]
Built(filed_at, expires_at) ==
    [outcome |-> "ok", filed_at |-> filed_at, expires_at |-> expires_at]

\* datetime.replace(year=...) raises ValueError when the result is no date
CanReplaceYear(dt, year) == ValidDate([dt EXCEPT !.year = year])

\* _ensure_utc, for datetimes that are naive or in UTC
EnsureUtc(dt) == [dt EXCEPT !.tz = "utc"]

\* An expiry without the except branch: ValueError leaves the function.
ComputeExpiryNoFallback(filed_at) ==
    IF CanReplaceYear(filed_at, filed_at.year + RetentionYears)
    THEN Built(filed_at, [filed_at EXCEPT !.year = filed_at.year + RetentionYears])
    ELSE ValueError

\* _compute_expiry: the record's two dates, or ValueError when
\* datetime(year + 6, 3, 1) is past MAXYEAR
ComputeExpiry(filed_at) ==
    IF CanReplaceYear(filed_at, filed_at.year + RetentionYears)
    THEN Built(filed_at, [filed_at EXCEPT !.year = filed_at.year + RetentionYears])
    ELSE IF filed_at.year + RetentionYears > MaxYear THEN ValueError
    ELSE Built(filed_at,
               FromOrdinal(ToOrdinal(filed_at)
                               + (ToOrdinal(DateTime(filed_at.year + RetentionYears, 3, 1,
                                                     0, filed_at.tz))
                                      - ToOrdinal(DateTime(filed_at.year, 3, 1, 0,
                                                           filed_at.tz))),
                           filed_at))

\* build_record: filed_at and expires_at of the record
BuildRecord(filed_at) == ComputeExpiry(EnsureUtc(filed_at))

\* Years of filing: common and leap years, leap years followed by a leap
\* year (1996, 2024) and by a century that is none (2096), and a century.
FilingYears == {1996, 2000, 2023, 2024, 2096, 2100}

FiledAts ==
    {dt \in [year : FilingYears, month : 1..12, day : 1..31, second : {0, 1},
             tz : {"naive", "utc"}] : ValidDate(dt)}

BuildRecordCall ==
    /\ lib.op = "asked" /\ lib.args.f = "build_record"
    /\ lib' = Called(lib, "build_record", lib.args.a, BuildRecord(lib.args.a))
    /\ UNCHANGED <<settings, retention, compiled>>
    /\ UNCHANGED appvars

\* t619.py, map_t183_fields: the Signature element of the authorization,
\* with expires_at = signed_at + timedelta(days=90)
MapT183Fields(signed_at) ==
    [SignedAt |-> signed_at,
     ExpiresAt |-> FromOrdinal(ToOrdinal(signed_at) + 90, signed_at)]

\* Signing times of the requests: every day of the filing years, in UTC.
SignedAts == {dt \in FiledAts : dt.second = 0 /\ dt.tz = "utc"}

MapT183FieldsCall ==
    /\ lib.op = "asked" /\ lib.args.f = "map_t183_fields"
    /\ lib' = Called(lib, "map_t183_fields", lib.args.a, MapT183Fields(lib.args.a))
    /\ UNCHANGED <<settings, retention, compiled>>
    /\ UNCHANGED appvars

InitRecord ==
    InitAsked({Asked("build_record", a) : a \in FiledAts}
                  \cup {Asked("map_t183_fields", a) : a \in SignedAts})

NextRecord == BuildRecordCall \/ MapT183FieldsCall

SpecRecord == InitRecord /\ [][NextRecord]_vars

\* ------------------------------------------------- app/efile/error_map.py
\* A code is a string, taken as the sequence of its characters.
\* RejectCodeInfo, by its code and category (summary and remediation are
\* fixed texts of the entry).
RejectCodeInfo(code, category) == [code |-> code, category |-> category]

\* _SPECIFIC_CODES
SpecificCodes ==
    [c \in {<<"1", "0", "0", "2", "1">>, <<"1", "0", "2", "0", "0">>} |->
         RejectCodeInfo(c, "Identification")]
    @@ [c \in {<<"3", "0", "0", "0", "1">>, <<"3", "0", "0", "2", "2">>} |->
            RejectCodeInfo(c, "Business rule")]
    @@ [c \in {<<"4", "0", "0", "1", "3">>} |-> RejectCodeInfo(c, "Balancing")]
    @@ [c \in {<<"5", "0", "1", "1", "3">>} |-> RejectCodeInfo(c, "Authorization")]
    @@ [c \in {<<"8", "0", "3", "0", "8">>} |-> RejectCodeInfo(c, "Transmission")]

\* _FAMILY_CODES
FamilyCodes ==
    [d \in {"1", "3", "4", "5", "8"} |->
        RejectCodeInfo(<<d, "x", "x">>,
                       CASE d = "1" -> "Identification"
                         [] d = "3" -> "Business rule"
                         [] d = "4" -> "Balancing"
                         [] d = "5" -> "Attachments"
                         [] d = "8" -> "Transmission")]

\* _UNKNOWN
Unknown == RejectCodeInfo(<<"unknown">>, "Unknown")

\* str.strip(): without the whitespace at both ends
RECURSIVE LStrip(_)
LStrip(str) == IF str # <<>> /\ Head(str) = " " THEN LStrip(Tail(str)) ELSE str

RECURSIVE RStrip(_)
RStrip(str) ==
    IF str # <<>> /\ str[Len(str)] = " " THEN RStrip(SubSeq(str, 1, Len(str) - 1))
    ELSE str

Strip(str) == RStrip(LStrip(str))

\* A lookup of the code as given, without trimming it.
GetRejectDetailsUntrimmed(code) ==
    LET normalized == IF code.given THEN code.str ELSE <<>>
    IN  IF normalized = <<>> THEN Unknown
        ELSE IF normalized \in DOMAIN SpecificCodes THEN SpecificCodes[normalized]
        ELSE IF \E prefix \in DOMAIN FamilyCodes : Head(normalized) = prefix
        THEN FamilyCodes[CHOOSE prefix \in DOMAIN FamilyCodes : Head(normalized) = prefix]
        ELSE Unknown

\* get_reject_details(code); code.given is false for None.
GetRejectDetails(code) ==
    LET normalized == Strip(IF code.given THEN code.str ELSE <<>>)
    IN  IF normalized = <<>> THEN Unknown
        ELSE IF normalized \in DOMAIN SpecificCodes THEN SpecificCodes[normalized]
        ELSE IF \E prefix \in DOMAIN FamilyCodes : Head(normalized) = prefix
        THEN FamilyCodes[CHOOSE prefix \in DOMAIN FamilyCodes : Head(normalized) = prefix]
        ELSE Unknown

\* Characters of the codes looked up: digits of two exact entries of two
\* families, a digit of no family, and a blank.
CodeChars == {"0", "1", "2", "3", "9", " "}

\* The strings of at most n characters.
Strings(n) == UNION {[1..k -> CodeChars] : k \in 0..n}

Pads == {<<>>, <<" ">>}

\* The codes looked up: None, every short string, and the exact entries and
\* their neighbours in the last digit, with and without blanks around them.
RejectCodes ==
    {[given |-> FALSE, str |-> <<>>]}
        \cup {[given |-> TRUE, str |-> l \o c \o r] :
                  l \in Pads, r \in Pads,
                  c \in Strings(MaxCodeLen)
                         \cup {SubSeq(e, 1, 4) \o <<d>> :
                                   e \in DOMAIN SpecificCodes, d \in CodeChars}}

LookupCall ==
    /\ lib.op = "asked" /\ lib.args.f = "get_reject_details"
    /\ lib' = Called(lib, "get_reject_details", lib.args.a, GetRejectDetails(lib.args.a))
    /\ UNCHANGED <<settings, retention, compiled>>
    /\ UNCHANGED appvars

InitLookup == InitAsked({Asked("get_reject_details", a) : a \in RejectCodes})

NextLookup == LookupCall

SpecLookup == InitLookup /\ [][NextLookup]_vars

\* ------------------------------------------------------------------ claims
\* The invocation got a PreparedEfile from prepare_xml_submission.
Accepted(s) ==
    /\ sub[s].kind = "xml"
    /\ sub[s].digest # <<>>
    /\ sub[s].result \notin {"duplicate", "no_endpoint", "persist_error"}

\* The invocation was rejected with the duplicate error.
RejectedDuplicate(s) == sub[s].result = "duplicate" /\ sub[s].status = 409

\* The invocation passed the digest check and then failed to resolve an
\* endpoint or to persist its artifacts.
FailedAfterCheck(s) == sub[s].result \in {"no_endpoint", "persist_error"}

CallsOf(digest) == {s \in Subs : sub[s].digest = digest}

SomeDigests == {sub[s].digest : s \in Subs} \ {<<>>}

\* C1: among the submissions whose packages have one digest, whatever their
\* interleaving, at most one is accepted; it registers the digest; every
\* submission that arrives after it is rejected with the duplicate error (409),
\* and a duplicate error is only ever answered when one was accepted.  (A call
\* that fails on the endpoint or on persistence is neither.)
C1_ExactlyOneAccepted ==
    \A d \in SomeDigests :
        LET accepted == {s \in CallsOf(d) : Accepted(s)}
        IN  /\ Cardinality(accepted) <= 1
            /\ (d \in submission_digests) = (accepted # {})
            /\ \A s \in CallsOf(d) :
                   Accepted(s) \/ RejectedDuplicate(s) \/ FailedAfterCheck(s)
            /\ \A s \in CallsOf(d) :
                   RejectedDuplicate(s) => \E a \in accepted : a < s
            /\ \A a \in accepted : \A s \in CallsOf(d) :
                   a < s => RejectedDuplicate(s)

\* C1 witness: a submission is rejected as a duplicate while the accepted
\* submission of the same digest is still being transmitted.
C1_Witness ==
    \E a \in Subs, b \in Subs :
        /\ a # b
        /\ Accepted(a) /\ sub[a].pc \in {"inflight", "sleeping"}
        /\ sub[b].digest = sub[a].digest /\ RejectedDuplicate(b)

\* C2: when the same return is prepared again after a call that accepted it,
\* the second call computes the same digest (whatever reference ids the two
\* calls drew), is rejected with 409 and leaves the digest set, the summary
\* index and last_sbmt_ref_id (and the summaries and artifacts) unchanged; the
\* first call for a return is not rejected as a duplicate.
C2_SecondCallRejected ==
    [][\A s \in Subs :
          (sub[s].pc = "idle" /\ sub'[s].kind = "xml" /\ sub'[s].digest # <<>>) =>
              IF \E a \in Subs : Accepted(a) /\ sub[a].req = sub'[s].req
              THEN /\ \A a \in Subs :
                         (Accepted(a) /\ sub[a].req = sub'[s].req) =>
                             sub'[s].digest = sub[a].digest
                   /\ sub'[s].result = "duplicate" /\ sub'[s].status = 409
                   /\ UNCHANGED <<submission_digests, summary_index,
                                  last_sbmt_ref_id, summaries, artifacts>>
              ELSE sub'[s].result # "duplicate"]_vars

\* C2 witness: the same return prepared twice with different reference ids,
\* the first call accepted and the second rejected as a duplicate.
C2_Witness ==
    \E a \in Subs, b \in Subs :
        /\ a < b /\ Accepted(a) /\ RejectedDuplicate(b)
        /\ sub[a].req = sub[b].req /\ sub[a].digest = sub[b].digest
        /\ sub[a].sbmt_ref_id # sub[b].sbmt_ref_id

\* In this step invocation s calls EfileClient.send.
SendStarts(s) == sub[s].pc = "idle" /\ sub'[s].label # ""

\* In this step an attempt of invocation s ends in an exception.
AttemptFailed(s) == sub[s].pc = "inflight" /\ sub'[s].pc = "sleeping"

\* In this step invocation s starts a POST.
PostStarts(s) == sub'[s].sent = sub[s].sent + 1

\* The circuit is open: openUntil is set and lies in the future.
OpenAt(state, t) == state.open_until # 0 /\ t < state.open_until

\* C3: the failed attempt that brings the count of consecutive failures to the
\* threshold sets openUntil to now + cooldown, and the count stands at the
\* threshold only while openUntil is set; a send call that starts before
\* openUntil fails at once with CircuitOpenError (503 on the XML path), starts
\* no POST and leaves the circuit as it is.
C3_OpenCircuitFailsFast ==
    [][\A s \in Subs :
          /\ \A l \in Labels :
                 circuits[l].failures >= settings.transmit_circuit_threshold =>
                     circuits[l].open_until # 0
          /\ (AttemptFailed(s) /\ circuits'[sub[s].label].failures
                                      >= settings.transmit_circuit_threshold) =>
                 circuits'[sub[s].label].open_until
                     = now + settings.transmit_circuit_cooldown
          /\ (SendStarts(s) /\ OpenAt(circuits[sub'[s].label], now)) =>
                 /\ sub'[s].pc = "done" /\ sub'[s].result = "circuit_open"
                 /\ sub'[s].kind = "xml" => sub'[s].status = 503
                 /\ sub'[s].sent = 0
                 /\ circuits' = circuits]_vars

\* C3 witness: a call has ended with CircuitOpenError without a POST while the
\* failure count stands at the threshold and openUntil lies ahead.
C3_Witness ==
    \E s \in Subs :
        /\ sub[s].result = "circuit_open" /\ sub[s].sent = 0
        /\ circuits[sub[s].label].failures >= settings.transmit_circuit_threshold
        /\ OpenAt(circuits[sub[s].label], now)

\* C4: no POST is started to an endpoint whose circuit is open, neither the
\* first attempt of a call nor a retry.
C4_NoPostWhileOpen ==
    [][\A s \in Subs :
          PostStarts(s) => ~OpenAt(circuits'[sub'[s].label], now')]_vars

\* The cool-down has elapsed: openUntil is set and does not lie in the future.
ElapsedAt(state, t) == state.open_until # 0 /\ t >= state.open_until

\* C5: when the half-open trial call fails on all its attempts, its last
\* failure leaves the circuit open with openUntil = now + cooldown, whatever
\* maxRetries and threshold are configured.
C5_HalfOpenFailureReopens ==
    [][\A s \in Subs :
          (/\ sub[s].half_open
           /\ AttemptFailed(s)
           /\ sub'[s].attempt = settings.transmit_max_retries) =>
              circuits'[sub[s].label].open_until
                  = now + settings.transmit_circuit_cooldown]_vars

\* C6: the send call that starts once the cool-down has elapsed is not
\* rejected: it starts its first POST; and when that call returns a response,
\* consecutiveFailures is 0 and openUntil is cleared.
C6_HalfOpenTrial ==
    [][\A s \in Subs :
          /\ (SendStarts(s) /\ ElapsedAt(circuits[sub'[s].label], now)) =>
                 /\ sub'[s].pc = "inflight" /\ sub'[s].result = ""
                 /\ sub'[s].sent = 1
          /\ (sub[s].half_open /\ sub[s].pc = "inflight"
                               /\ sub'[s].result = "returned") =>
                 /\ circuits'[sub[s].label].failures = 0
                 /\ circuits'[sub[s].label].open_until = 0]_vars

\* C6 witness: a call that started after the cool-down has returned a
\* response, and the circuit of its endpoint is closed.
C6_Witness ==
    \E s \in Subs :
        /\ sub[s].half_open /\ sub[s].result = "returned" /\ sub[s].sent >= 1
        /\ circuits[sub[s].label].failures = 0
        /\ circuits[sub[s].label].open_until = 0

\* C7: when the transmission of an accepted submission has failed, a later
\* submission of the same return is not rejected as a duplicate.
C7_ResubmissionAfterFailure ==
    [][\A a \in Subs, b \in Subs :
          (/\ sub[a].kind = "xml" /\ sub[a].result = "transmit_failed"
           /\ sub[b].pc = "idle" /\ sub'[b].kind = "xml"
           /\ sub'[b].digest = sub[a].digest) =>
              sub'[b].result # "duplicate"]_vars

\* C8: the digest of a submission is in the registered set from the moment its
\* transmission client is created, so before its first POST; a submission
\* rejected as a duplicate never gets a client and starts no POST.
C8_RegisteredBeforeTransmit ==
    \A s \in Subs :
        sub[s].kind = "xml" =>
            /\ (sub[s].label # "" \/ sub[s].sent > 0) =>
                   sub[s].digest # <<>> /\ sub[s].digest \in submission_digests
            /\ sub[s].result = "duplicate" =>
                   sub[s].label = "" /\ sub[s].sent = 0

\* C8 witness: one submission has started a POST with its digest registered,
\* and a duplicate of it was rejected without a POST.
C8_Witness ==
    \E a \in Subs, b \in Subs :
        /\ sub[a].kind = "xml" /\ sub[a].sent >= 1
        /\ sub[a].digest \in submission_digests
        /\ sub[b].result = "duplicate" /\ sub[b].digest = sub[a].digest
        /\ sub[b].sent = 0

RECURSIVE Pow2(_)
Pow2(n) == IF n = 0 THEN 1 ELSE 2 * Pow2(n - 1)

\* C9: a send call starts at most maxRetries POSTs; after its k-th failed
\* attempt, the last one included, it waits backoff * 2^(k-1): the delay is
\* set to that value, the wake-up time to now plus the delay, and the call
\* goes on only when that time has come.
C9_RetryBudgetAndBackoff ==
    [][\A s \in Subs :
          /\ sub[s].sent <= settings.transmit_max_retries
          /\ sub[s].pc = "sleeping" =>
                 /\ sub[s].attempt >= 1 /\ sub[s].attempt = sub[s].sent
                 /\ sub[s].sleep_for = settings.transmit_backoff_factor
                                           * Pow2(sub[s].attempt - 1)
          /\ AttemptFailed(s) => sub'[s].wake = now + sub'[s].sleep_for
          /\ (sub[s].pc = "sleeping" /\ sub'[s].pc # "sleeping") =>
                 now >= sub[s].wake]_vars

\* C9 witness: with maxRetries = 3 the third attempt has failed and the call
\* waits four times the back-off factor.
C9_Witness ==
    \E s \in Subs :
        /\ settings.transmit_max_retries = 3
        /\ sub[s].pc = "sleeping" /\ sub[s].attempt = 3 /\ sub[s].sent = 3
        /\ sub[s].sleep_for = 4 * settings.transmit_backoff_factor

\* C10: a send call ends with a response at its first 2xx answer, without a
\* further attempt; and when it raises RuntimeError, all maxRetries attempts
\* have failed, none was answered 2xx, and the error carried is the one of the
\* last attempt.
C10_ReturnsOnFirstSuccess ==
    \A s \in Subs :
        /\ sub[s].got_2xx >= 1 =>
               /\ sub[s].pc = "done" /\ sub[s].result = "returned"
               /\ sub[s].got_2xx = 1
        /\ sub[s].result = "transmit_failed" =>
               /\ sub[s].got_2xx = 0
               /\ sub[s].sent = settings.transmit_max_retries
               /\ sub[s].raised.attempt = sub[s].sent

\* In this step the POST of invocation s is answered 2xx.
Answered2xx(s) == sub'[s].got_2xx = sub[s].got_2xx + 1

\* In this step the POST of invocation s ends without a 2xx answer.
AnsweredOtherwise(s) ==
    /\ sub[s].pc = "inflight" /\ sub'[s].pc # "inflight"
    /\ sub'[s].got_2xx = sub[s].got_2xx

\* C11: an attempt answered 2xx is a success on either content type: the call
\* returns, the failure counter of the label is reset and not incremented, and
\* no further POST follows; an attempt that ends otherwise (non-2xx, timeout)
\* counts as one failed attempt: attempt and failure counter go up by one.
C11_2xxIsSuccess ==
    [][\A s \in Subs :
          /\ Answered2xx(s) =>
                 /\ sub'[s].pc = "done" /\ sub'[s].result = "returned"
                 /\ circuits'[sub[s].label].failures = 0
          /\ AnsweredOtherwise(s) =>
                 /\ sub'[s].attempt = sub[s].attempt + 1
                 /\ circuits'[sub[s].label].failures
                        = circuits[sub[s].label].failures + 1]_vars

\* C12: the digest depends on the tuple (return XML, authorization XML,
\* environment, software id, software version, transmitter id) only: of two
\* digest computations, equal tuples give equal digests and tuples that differ
\* in a component give different digests.
C12_DigestIdentifiesTuple ==
    (lib.op = "digest" /\ lib.prev_op = "digest") =>
        ((lib.args = lib.prev_args) = (lib.result = lib.prev_result))

\* prepare_xml_submission ran the prefile gate for invocation s and found an
\* issue, or built the package and a document violated its schema.
Aborted(s) ==
    \/ ~sub[s].t183_signed_ts \/ ~sub[s].others_ok \/ sub[s].issues # {}
    \/ sub[s].violation # "none" \/ sub[s].build \notin {"none", "ok"}

\* C13: a transmission client is created and a POST started for a submission
\* only if the prefile gate found no issue and return, authorization and
\* envelope each conform to their schema; the step in which the gate finds an
\* issue or a document violates its schema ends the submission (400 or 500)
\* without a POST, with no digest registered, no artifact or summary written
\* and no circuit touched, and the submission never runs again.
C13_GateAndSchemaBeforeNetwork ==
    [][\A s \in Subs :
          /\ (sub[s].kind = "xml" /\ (sub[s].sent > 0 \/ sub[s].label # "")) =>
                 /\ sub[s].t183_signed_ts /\ sub[s].others_ok
                 /\ sub[s].issues = {}
                 /\ sub[s].violation = "none" /\ sub[s].build = "ok"
          /\ Aborted(s) =>
                 /\ sub[s].pc = "done" /\ sub[s].sent = 0 /\ sub[s].label = ""
                 /\ sub[s].digest = <<>>
                 /\ sub[s].result \in {"prefile", "build_error"}
                 /\ sub[s].status \in {400, 500}
          /\ (sub[s].pc = "idle" /\ Aborted(s)') =>
                 UNCHANGED <<submission_digests, summary_index, summaries,
                             artifacts, last_sbmt_ref_id, circuits>>
          /\ (sub[s].pc # "idle" /\ Aborted(s)) => sub'[s] = sub[s]]_vars

\* C13 witness: one submission was stopped by the prefile gate and one by a
\* schema violation of the envelope; nothing is registered or written.
C13_Witness ==
    \E a \in Subs, b \in Subs :
        /\ sub[a].result = "prefile" /\ sub[a].issues # {} /\ sub[a].sent = 0
        /\ sub[b].result = "build_error" /\ sub[b].violation = "T619Transmission"
        /\ sub[b].sent = 0
        /\ submission_digests = {} /\ artifacts = {}

\* C14: a submission whose return has no T183 signing timestamp ends in the
\* prefile gate with status 400 and issue 50010, before build_t619_package is
\* called: it has no digest, registers none and makes no POST; and
\* build_t619_package called directly on such a return raises ValueError and
\* returns no document.
C14_UnsignedFailsBeforeBuild ==
    [][/\ \A s \in Subs :
             (sub'[s].kind = "xml" /\ sub'[s].pc # "idle"
                 /\ ~sub'[s].t183_signed_ts) =>
                 /\ sub'[s].pc = "done" /\ sub'[s].result = "prefile"
                 /\ sub'[s].status = 400 /\ "50010" \in sub'[s].issues
                 /\ sub'[s].build = "none" /\ sub'[s].digest = <<>>
                 /\ sub'[s].sent = 0 /\ sub'[s].label = ""
                 /\ (sub[s].pc = "idle" =>
                        UNCHANGED <<submission_digests, artifacts, circuits>>)
       /\ (lib'.op = "build" /\ ~lib'.args.t183_signed_ts) =>
              /\ lib'.result.outcome = "ValueError"
              /\ lib'.result.package = NoPackage]_vars

\* C14 witness: an unsigned submission was answered while a signed one is
\* registered and being sent, and the last direct build of an unsigned return
\* raised.
C14_Witness ==
    /\ \E a \in Subs, b \in Subs :
           /\ sub[a].kind = "xml" /\ sub[a].pc = "done" /\ ~sub[a].t183_signed_ts
           /\ sub[b].kind = "xml" /\ sub[b].t183_signed_ts /\ sub[b].sent > 0
    /\ lib.op = "build" /\ ~lib.args.t183_signed_ts
    /\ lib.prev_op = "build" /\ lib.prev_result.outcome = "ok"

\* The bytes are a record expiring at e that a process with these settings
\* reads back: plaintext when it has no key, a token of its key otherwise.
ReadableRecord(s, file, e) ==
    /\ file.body = "record" /\ file.expires_at = <<"iso", e>>
    /\ s.t183_crypto_key # "bad"
    /\ file.token_of = s.t183_crypto_key

\* The bytes are a file, and no record the process reads back.
NotReadable(s, file) ==
    /\ file # NoBytes
    /\ \A e \in Expiries : ~ReadableRecord(s, file, e)

T183Paths == {p \in RetentionPaths : p[3] = "t183"}
T2183Paths == {p \in RetentionPaths : p[3] = "t2183"}

\* C15: purge_expired(base, as_of) deletes a readable T183 record if and only
\* if its expires_at <= as_of and returns exactly the paths it deleted; a
\* record with expires_at > as_of is still there afterwards, unchanged, and no
\* other file is touched.
C15_PurgeDeletesExactlyExpired ==
    [][lib'.op = "purge_expired" =>
          /\ \A p \in T183Paths : \A e \in Expiries :
                 ReadableRecord(settings, retention[p], e) =>
                     /\ (retention'[p] = NoBytes) = (e <= lib'.args)
                     /\ (e > lib'.args) => retention'[p] = retention[p]
          /\ lib'.result = {p \in RetentionPaths :
                               retention[p] # NoBytes /\ retention'[p] = NoBytes}
          /\ \A p \in RetentionPaths :
                 retention'[p] \in {retention[p], NoBytes}
          /\ \A p \in T2183Paths : retention'[p] = retention[p]]_vars

\* C15 witness: a purge as of time 1 removed a record and left a readable
\* record that expires at time 2.
C15_Witness ==
    /\ lib.op = "purge_expired" /\ lib.args = 1 /\ lib.result # {}
    /\ \E p \in T183Paths : ReadableRecord(settings, retention[p], 2)

\* C16: a purge deletes no file that it cannot read, decrypt or parse: the
\* file stays as it is and its path is not returned, and the expired records
\* the same sweep can read are deleted all the same.
C16_PurgeSkipsUnreadable ==
    [][lib'.op \in {"purge_expired", "purge_t2183"} =>
          /\ \A p \in RetentionPaths :
                 NotReadable(settings, retention[p]) =>
                     retention'[p] = retention[p] /\ p \notin lib'.result
          /\ \A p \in RetentionPaths : \A e \in Expiries :
                 (/\ ReadableRecord(settings, retention[p], e)
                  /\ e <= lib'.args
                  /\ \/ lib'.op = "purge_expired" /\ p \in T183Paths
                     \/ /\ lib'.op = "purge_t2183" /\ p \in T2183Paths
                        /\ settings.retention_t2183_enabled) =>
                     retention'[p] = NoBytes /\ p \in lib'.result]_vars

\* C16 witness: a sweep removed a record and left a file of the same kind
\* that it cannot read.
C16_Witness ==
    /\ lib.op = "purge_expired" /\ lib.result # {}
    /\ \E p \in T183Paths : NotReadable(settings, retention[p])

\* C17: with no key configured, encrypt(data) and decrypt(data) raise
\* EncryptionError, and neither returns its input.
C17_NoKeyRaises ==
    (lib.op \in {"encrypt", "decrypt"} /\ settings.t183_crypto_key = "") =>
        /\ lib.result.raised = "EncryptionError"
        /\ lib.result.value # lib.args

\* C18: with a key configured, store_signed and store_t2183 write no
\* plaintext: the call writes the token of the record under that key at the
\* path it returns and nothing else, or raises EncryptionError and leaves the
\* root as it was (store_t2183 with the flag off returns None and writes
\* nothing); no plaintext record gets under the root by a store.
C18_NoPlaintextWithKey ==
    [][(lib'.op \in {"store_signed", "store_t2183"}
           /\ settings.t183_crypto_key # "") =>
          IF lib'.result.raised # "none"
          THEN /\ lib'.result.raised = "EncryptionError"
               /\ lib'.result.path = <<>>
               /\ retention' = retention
          ELSE IF lib'.result.path = <<>>
          THEN /\ lib'.op = "store_t2183" /\ ~settings.retention_t2183_enabled
               /\ retention' = retention
          ELSE /\ retention'[lib'.result.path] =
                      [token_of |-> settings.t183_crypto_key, body |-> "record",
                       expires_at |-> <<"iso", lib'.args.expires_at>>]
               /\ \A p \in RetentionPaths \ {lib'.result.path} :
                      retention'[p] = retention[p]]_vars

\* C18 witness: with key K1 configured a store wrote a token of K1.
C18_Witness ==
    /\ settings.t183_crypto_key = "K1"
    /\ lib.op = "store_signed" /\ lib.result.raised = "none"
    /\ retention[lib.result.path].token_of = "K1"

\* C19: with the T2183 flag off, store_t2183 returns None without raising and
\* purge_t2183 returns an empty list, and neither creates, changes or deletes
\* a file, whatever the root holds.
C19_T2183FlagOff ==
    [][~settings.retention_t2183_enabled =>
          /\ lib'.op = "store_t2183" =>
                 /\ lib'.result.raised = "none" /\ lib'.result.path = <<>>
                 /\ retention' = retention
          /\ lib'.op = "purge_t2183" =>
                 /\ lib'.result = {}
                 /\ retention' = retention]_vars

\* C19 witness: with the flag off and no key, a purge as of time 2 returned
\* while the root holds a plaintext T2183 record that expired at time 1.
C19_Witness ==
    /\ ~settings.retention_t2183_enabled /\ settings.t183_crypto_key = ""
    /\ lib.op = "purge_t2183" /\ lib.args = 2
    /\ \E p \in T2183Paths : ReadableRecord(settings, retention[p], 1)

\* The items of a dict, whatever their insertion order.
Items(documents) == {documents[i] : i \in 1..Len(documents)}

T4WithoutIncome(slips) ==
    {i \in 1..Len(slips) : slips[i].employment_income = <<>>}

\* The T5 slips whose foreign tax withheld exceeds their foreign income.
T5TaxAboveIncome(slips) ==
    {i \in 1..Len(slips) :
        /\ slips[i].foreign_tax_withheld # <<>>
        /\ slips[i].foreign_tax_withheld[1] >
               (IF slips[i].foreign_income = <<>> THEN 0
                ELSE slips[i].foreign_income[1])}

\* The checks of validate_before_efile that fail on a call, each with the
\* code it is reported with; per-slip checks are counted slip by slip.
FailingChecks(a) ==
    LET id == a.identity
        p == a.payload
        province == IF p.province # "" THEN p.province ELSE id.province
        tuition == IF p.tuition_slips = <<>> THEN 0
                   ELSE p.tuition_slips[1].eligible_tuition[1]
        claim == IF p.tuition_claim = <<>> THEN 0 ELSE p.tuition_claim[1]
    IN  [codes |->
            (IF ~id.sin_ok THEN {"10001"} ELSE {})
                \cup (IF ~id.name_ok THEN {"10002"} ELSE {})
                \cup (IF ~id.dob_ok THEN {"10003"} ELSE {})
                \cup (IF ~id.address_ok THEN {"10004"} ELSE {})
                \cup (IF id.province # "ON" \/ province # "ON" THEN {"10005"} ELSE {})
                \cup (IF ~id.postal_ok THEN {"10006"} ELSE {})
                \cup (IF p.taxable_income[1] < 0 THEN {"30010"} ELSE {})
                \cup (IF p.tax_year[1] \notin {2024, 2025} THEN {"20001"} ELSE {})
                \cup (IF ~p.t183_signed_ts THEN {"50010"} ELSE {})
                \cup (IF ~p.t183_ip_hash THEN {"50011"} ELSE {})
                \cup (IF p.slips_t4_count # <<>> /\ Len(p.slips_t4) # 1
                      THEN {"60012"} ELSE {})
                \cup (IF Len(p.slips_t4) > 50 THEN {"60018"} ELSE {})
                \cup (IF T4WithoutIncome(p.slips_t4) # {} THEN {"60010"} ELSE {})
                \cup (IF p.slips_t4a # <<>> THEN {"60013", "60014"} ELSE {})
                \cup (IF T5TaxAboveIncome(p.slips_t5) # {} THEN {"60017"} ELSE {})
                \cup (IF claim > tuition THEN {"61014", "61015"} ELSE {})
                \cup (IF p.rrsp_contrib # <<>> THEN {"30011"} ELSE {}),
         number |->
            Cardinality({i \in 1..18 : <<~id.sin_ok, ~id.name_ok, ~id.dob_ok, ~id.address_ok,
                    id.province # "ON", ~id.postal_ok,
                    p.taxable_income[1] < 0, province # "ON",
                    p.tax_year[1] \notin {2024, 2025},
                    ~p.t183_signed_ts, ~p.t183_ip_hash,
                    p.slips_t4_count # <<>> /\ Len(p.slips_t4) # 1,
                    Len(p.slips_t4) > 50,
                    p.slips_t4a # <<>>, p.slips_t4a # <<>>,
                    claim > tuition, claim > tuition,
                    p.rrsp_contrib # <<>>>>[i]})
                + Cardinality(T4WithoutIncome(p.slips_t4))
                + Cardinality(T5TaxAboveIncome(p.slips_t5))]

\* C21: validate_before_efile returns one issue for every check that fails,
\* whatever other checks fail, and nothing else: the codes returned are the
\* codes of the failing checks, the list is as long as the number of failing
\* checks, and it is empty only if every check passes.
C21_EveryFailingCheckReported ==
    lib.op = "validate_before_efile" =>
        /\ {lib.result[i].code : i \in 1..Len(lib.result)} = FailingChecks(lib.args).codes
        /\ Len(lib.result) = FailingChecks(lib.args).number
        /\ (lib.result = <<>>) = (FailingChecks(lib.args).number = 0)

\* C21 witness: a call on an identity with a bad SIN and a payload with
\* negative income, no signing timestamp and a T5 slip whose foreign tax
\* exceeds its foreign income returned the four issues.
C21_Witness ==
    /\ lib.op = "validate_before_efile"
    /\ {lib.result[i].code : i \in 1..Len(lib.result)} = {"10001", "30010", "50010", "60017"}

\* The characters i+1..j of the code are the code without the blanks
\* around it.
TrimmedAt(code, i, j) ==
    /\ \A k \in (1..i) \cup ((j + 1)..Len(code)) : code[k] = " "
    /\ i = j \/ (code[i + 1] # " " /\ code[j] # " ")

\* C22: get_reject_details returns the exact-table entry when the trimmed
\* code is in the exact table, otherwise the family entry of the code's
\* leading digit when that family exists, otherwise the unknown entry, which
\* is also the answer for an empty or missing code; it changes no state.
C22_TwoTierLookup ==
    lib.op = "get_reject_details" =>
        /\ \A i \in 0..Len(lib.args.str) : \A j \in i..Len(lib.args.str) :
               TrimmedAt(lib.args.str, i, j) =>
                   LET str == SubSeq(lib.args.str, i + 1, j)
                   IN  lib.result =
                           IF ~lib.args.given \/ str = <<>> THEN Unknown
                           ELSE IF str \in DOMAIN SpecificCodes THEN SpecificCodes[str]
                           ELSE IF str[1] \in DOMAIN FamilyCodes THEN FamilyCodes[str[1]]
                           ELSE Unknown
        /\ retention = EmptyRoot /\ compiled = {} /\ submission_digests = {}

\* C22 witness: a lookup of an exact code with a blank before it returned
\* the exact entry.
C22_Witness ==
    /\ lib.op = "get_reject_details"
    /\ lib.args.str = <<" ", "3", "0", "0", "2", "2">>
    /\ lib.result = RejectCodeInfo(<<"3", "0", "0", "2", "2">>, "Business rule")

\* The datetime is later than another one of the same zone.
Later(a, b) ==
    \/ ToOrdinal(a) > ToOrdinal(b)
    \/ ToOrdinal(a) = ToOrdinal(b) /\ a.second > b.second

\* C23: build_record never raises; expires_at is filed_at six calendar years
\* later (same month, day and time of day), except for a Feb 29, whose target
\* year is no leap year: then expires_at is the valid date as many days after
\* filed_at as Mar 1 of year+6 is after Mar 1 of year; expires_at is later
\* than filed_at.
C23_ExpirySixYears ==
    lib.op = "build_record" =>
        LET filed_at == lib.result.filed_at
            expires_at == lib.result.expires_at
        IN  /\ lib.result.outcome = "ok"
            /\ filed_at = [lib.args EXCEPT !.tz = "utc"]
            /\ ValidDate(expires_at)
            /\ expires_at.second = filed_at.second /\ expires_at.tz = "utc"
            /\ IF filed_at.month = 2 /\ filed_at.day = 29
               THEN ToOrdinal(expires_at) - ToOrdinal(filed_at)
                        = ToOrdinal(DateTime(filed_at.year + 6, 3, 1, 0, "utc"))
                              - ToOrdinal(DateTime(filed_at.year, 3, 1, 0, "utc"))
               ELSE /\ expires_at.year = filed_at.year + 6
                    /\ expires_at.month = filed_at.month
                    /\ expires_at.day = filed_at.day
            /\ Later(expires_at, filed_at)

\* C23 witness: a record filed on Feb 29, 2024 expires on Feb 28, 2030.
C23_Witness ==
    /\ lib.op = "build_record"
    /\ lib.args.year = 2024 /\ lib.args.month = 2 /\ lib.args.day = 29
    /\ lib.result.outcome = "ok"
    /\ lib.result.expires_at.year = 2030
    /\ lib.result.expires_at.month = 2 /\ lib.result.expires_at.day = 28

\* C24: a store call never overwrites a stored record: whenever store_signed
\* or store_t2183 writes a path, no record was stored at that path before,
\* or the record there is left as it was.
C24_StoreNeverOverwrites ==
    [][(/\ lib'.op \in {"store_signed", "store_t2183"}
        /\ lib'.result.raised = "none"
        /\ lib'.result.path # NoPath
        /\ Readable(settings, retention[lib'.result.path]))
           => retention'[lib'.result.path] = retention[lib'.result.path]]_vars

\* C25: the legacy JSON path takes no part in the circuit breaker: no step of
\* a legacy invocation changes a circuit state, and no legacy invocation
\* ends because a circuit is open.
C25_LegacyOutsideCircuit ==
    [][\A s \in Subs :
           (sub'[s] # sub[s] /\ sub'[s].kind = "legacy")
               => /\ circuits' = circuits
                  /\ sub'[s].result # "circuit_open"]_vars

\* A send call on the label starts in this step, after open_until has passed.
HalfOpenStart(l) ==
    \E s \in Subs :
        /\ sub[s].pc = "idle" /\ sub'[s].pc = "inflight" /\ sub'[s].label = l
        /\ circuits[l].open_until # 0 /\ now >= circuits[l].open_until

\* An attempt on the label gets its 2xx response in this step.
SuccessOn(l) ==
    \E s \in Subs :
        /\ sub[s].pc = "inflight" /\ sub[s].label = l
        /\ sub'[s].got_2xx = sub[s].got_2xx + 1

\* The circuit of the label is open or not as its count says.
OpenIffThreshold(l) ==
    (circuits[l].open_until # 0)
        = (circuits[l].failures >= settings.transmit_circuit_threshold)

\* C26: for each label, open_until is set if and only if the failure count
\* is at least the threshold, in every reachable state; the count never
\* falls and open_until is never cleared except in a step that clears both,
\* and such a step is the start of a send call after open_until has passed
\* or an attempt that succeeded.
C26_OpenIffThreshold ==
    /\ [](\A l \in Labels : OpenIffThreshold(l))
    /\ [][\A l \in Labels :
              (\/ circuits'[l].failures < circuits[l].failures
               \/ circuits[l].open_until # 0 /\ circuits'[l].open_until = 0)
                  => /\ circuits'[l] = ClosedCircuit
                     /\ HalfOpenStart(l) \/ SuccessOn(l)]_vars

\* C27: every failed attempt raises the failure count of its label by
\* exactly one, whatever other send calls on the label are under way.
C27_NoLostIncrement ==
    [][\A s \in Subs :
           AttemptFailed(s)
               => circuits'[sub[s].label].failures
                      = circuits[sub[s].label].failures + 1]_vars

\* C28: the gate of prepare_xml_submission reports the per-slip violations
\* of the return: more than 50 slips of a type, a T4 slip without employment
\* income, a T5 slip whose foreign tax withheld exceeds its foreign income and
\* a tuition claim above the eligible total each give their issue, so the
\* gate raises and the envelope is not built.
C28_GateReportsSlipViolations ==
    lib.op = "enforce_prefile_gates" =>
        LET p == lib.args.payload
            codes == {lib.result[i].code : i \in 1..Len(lib.result)}
        IN  /\ Len(p.slips_t4) > MaxSlipsPerType => "60018" \in codes
            /\ T4WithoutIncome(p.slips_t4) # {} => "60010" \in codes
            /\ T5TaxAboveIncome(p.slips_t5) # {} => "60017" \in codes
            /\ (p.tuition_claim # <<>>
                    /\ p.tuition_claim[1] > TuitionTotal(p.tuition_slips))
                   => "61014" \in codes

\* C29: the ExpiresAt written into the Signature element of the authorization
\* document is the retention expiry that _compute_expiry gives for SignedAt.
C29_ExpiresAtIsRetentionExpiry ==
    lib.op = "map_t183_fields" =>
        lib.result.ExpiresAt = ComputeExpiry(lib.result.SignedAt).expires_at

\* The artifact files of the digest and its daily-summary entry are there.
Persisted(digest) ==
    /\ \E r \in RefIds : <<r, digest>> \in artifacts
    /\ digest \in summary_index
    /\ \E i \in 1..Len(summaries) : summaries[i].digest = digest

\* C30: every registered digest has its artifact files and a daily-summary
\* entry persisted, in every reachable state, and a prepare_xml_submission
\* call that fails (prefile issue, schema violation, missing endpoint,
\* duplicate, error while persisting) registers no digest.
C30_RegisteredIsPersisted ==
    /\ [](\A digest \in submission_digests : Persisted(digest))
    /\ [][\A s \in Subs :
              (/\ sub[s].pc = "idle"
               /\ sub'[s].result \in {"prefile", "build_error", "no_endpoint",
                                      "duplicate", "persist_error"})
                  => submission_digests' = submission_digests]_vars

\* C30 witness: one submission is registered with its artifacts and summary
\* entry, and another failed while persisting and is not registered.
C30_Witness ==
    /\ \E a \in Subs :
           /\ sub[a].digest # <<>> /\ sub[a].digest \in submission_digests
           /\ Persisted(sub[a].digest)
    /\ \E b \in Subs :
           /\ sub[b].result = "persist_error"
           /\ sub[b].digest \notin submission_digests

====
